---------------------------- MODULE Spec2Model ----------------------------
(***************************************************************************)
(* State-machine model of the brokerage account engine of                  *)
(* src/bankaccounts/src/accounts.rs (BrokerageAccount and the              *)
(* CheckingSavingsAccount it transfers to).                                *)
(*                                                                         *)
(* Amounts are f64 in the source.  They are modelled as exact rationals    *)
(* <<n, d>> in lowest terms with d > 0, so that every +, -, *, / of the    *)
(* source is computed as the source computes it, without rounding error.   *)
(* A rational whose numerator or denominator exceeds MaxMag is outside the *)
(* range of the model (NaR); a call that computes one is not taken.        *)
(***************************************************************************)
EXTENDS Integers, Sequences, FiniteSets, Bags, TLC

\* ------------------------------------------------------------------ bounds
MaxMag == 30000
MaxCalls == 3
MaxTrades == 4
MaxRebalances == 3
MaxChecks == 4

\* -------------------------------------------------------------- arithmetic
Abs(n) == IF n < 0 THEN -n ELSE n

RECURSIVE GCD(_, _)
GCD(a, b) == IF b = 0 THEN a ELSE GCD(b, a % b)

NaR == <<0, 0>>

IsNum(x) == x[2] # 0

Reduced(n, d, g) ==
  IF Abs(n) \div g > MaxMag \/ d \div g > MaxMag
  THEN NaR
  ELSE <<n \div g, d \div g>>

Norm(n, d) == Reduced(n, d, GCD(Abs(n), d))

Q(n, d) == Norm(n, d)

Zero == <<0, 1>>

AddOver(x, y, g) ==
  Norm(x[1] * (y[2] \div g) + y[1] * (x[2] \div g), (x[2] \div g) * y[2])

FAdd(x, y) ==
  IF ~IsNum(x) \/ ~IsNum(y) THEN NaR ELSE AddOver(x, y, GCD(x[2], y[2]))

FNeg(x) == <<-x[1], x[2]>>

FSub(x, y) == FAdd(x, FNeg(y))

MulOver(x, y, g1, g2) ==
  Norm((x[1] \div g1) * (y[1] \div g2), (x[2] \div g2) * (y[2] \div g1))

FMul(x, y) ==
  IF ~IsNum(x) \/ ~IsNum(y) THEN NaR
  ELSE MulOver(x, y, GCD(Abs(x[1]), y[2]), GCD(Abs(y[1]), x[2]))

FDiv(x, y) ==
  IF ~IsNum(x) \/ ~IsNum(y) \/ y[1] = 0 THEN NaR
  ELSE FMul(x, IF y[1] > 0 THEN <<y[2], y[1]>> ELSE <<-y[2], -y[1]>>)

FLt(x, y) == x[1] * y[2] < y[1] * x[2]

FLe(x, y) == x[1] * y[2] <= y[1] * x[2]

FGt(x, y) == FLt(y, x)

FGe(x, y) == FLe(y, x)

FAbs(x) == <<Abs(x[1]), x[2]>>

FMax(x, y) == IF FLt(x, y) THEN y ELSE x

\* f64::round: to the nearest integer, half away from zero
FRound(x) ==
  IF ~IsNum(x) THEN NaR
  ELSE IF x[1] >= 0 THEN <<(2 * x[1] + x[2]) \div (2 * x[2]), 1>>
       ELSE <<-((2 * (-x[1]) + x[2]) \div (2 * x[2])), 1>>

AllNum(S) == \A x \in S : IsNum(x)

RECURSIVE SumSeq(_)
SumSeq(s) == IF s = <<>> THEN Zero ELSE FAdd(s[1], SumSeq(Tail(s)))

\* ------------------------------------------------------------- data model
AssetClass == {"Equity", "Bond", "Other"}

TransactionType ==
  {"Deposit", "Withdrawal", "Interest", "UnrealizedGain", "Fee", "Tax", "Sale", "Purchase"}

Transaction(type, amount) == [transaction_type |-> type, amount |-> amount]

Asset(class, shares, cost_basis, price) ==
  [asset_class |-> class, shares |-> shares, cost_basis |-> cost_basis,
   current_price |-> price]

get_value(asset) == FMul(asset.shares, asset.current_price)

\* mutant of get_rate_of_return: every class grows at the Equity rate
get_rate_of_return_EquityRate(asset) == Q(10, 1)

get_rate_of_return(asset) ==
  CASE asset.asset_class = "Equity" -> Q(10, 1)
    [] asset.asset_class = "Bond"   -> Q(35, 10)
    [] asset.asset_class = "Other"  -> Zero

BrokerageAccount(starting_balance, cash_interest) ==
  [starting_balance |-> starting_balance,
   cash_interest    |-> cash_interest,
   cash_balance     |-> starting_balance,
   assets           |-> <<>>,
   transactions     |-> <<>>]

ValuesOf(lots) == [i \in 1..Len(lots) |-> get_value(lots[i])]

CostBasesOf(lots) == [i \in 1..Len(lots) |-> lots[i].cost_basis]

AmountsOf(txs) == [i \in 1..Len(txs) |-> txs[i].amount]

get_balance(a) == FAdd(a.cash_balance, SumSeq(ValuesOf(a.assets)))

get_cash_balance(a) == a.cash_balance

get_assets_of_type(a, class) ==
  LET OfClass(asset) == asset.asset_class = class
  IN  SelectSeq(a.assets, OfClass)

TxOfType(txs, type) ==
  LET IsType(t) == t.transaction_type = type
  IN  SelectSeq(txs, IsType)

\* summarize_transactions()[type], 0.0 when the type is absent
summarize_transactions(a, type) == SumSeq(AmountsOf(TxOfType(a.transactions, type)))

\* total_in and total_out of validate_balance: f64 addition in the order written
TotalIn(a) ==
  FAdd(FAdd(summarize_transactions(a, "Deposit"), summarize_transactions(a, "Interest")),
       summarize_transactions(a, "UnrealizedGain"))

TotalOut(a) ==
  FAdd(FAdd(summarize_transactions(a, "Withdrawal"), summarize_transactions(a, "Tax")),
       summarize_transactions(a, "Fee"))

ExpectedBalance(a) == FSub(FAdd(a.starting_balance, TotalIn(a)), TotalOut(a))

\* TRUE when validate_balance returns Ok(())
validate_balance(a) ==
  FLt(FAbs(FSub(get_balance(a), ExpectedBalance(a))), Q(15, 1000))

\* mutant of has_enough_cash: any amount passes
has_enough_cash_Always(a, amount) == TRUE

has_enough_cash(a, amount) ==
  FGt(FSub(get_cash_balance(a), amount), Q(1, 1000))

\* every amount of the account, and every amount its queries derive, is in range
InRange(a) ==
  /\ AllNum({a.starting_balance, a.cash_interest, a.cash_balance,
             get_balance(a), ExpectedBalance(a)})
  /\ \A i \in 1..Len(a.transactions) : IsNum(a.transactions[i].amount)
  /\ \A i \in 1..Len(a.assets) :
        AllNum({a.assets[i].shares, a.assets[i].cost_basis, a.assets[i].current_price,
                get_value(a.assets[i]),
                FDiv(a.assets[i].cost_basis, a.assets[i].shares)})

AllocOf(cash_bal, equity_bal, bond_bal, total_bal) ==
  <<FDiv(cash_bal, total_bal), FDiv(equity_bal, total_bal), FDiv(bond_bal, total_bal)>>

get_asset_alloc(a) ==
  AllocOf(a.cash_balance,
          SumSeq(ValuesOf(get_assets_of_type(a, "Equity"))),
          SumSeq(ValuesOf(get_assets_of_type(a, "Bond"))),
          get_balance(a))

\* the second match of generate_statement: what a transaction does to running_cash
RunningCashAfter(running_cash, transaction) ==
  CASE transaction.transaction_type \in {"Deposit", "Interest", "Sale"} ->
         FAdd(running_cash, transaction.amount)
    [] transaction.transaction_type \in {"Withdrawal", "Fee", "Tax", "Purchase"} ->
         FSub(running_cash, transaction.amount)
    [] OTHER -> running_cash

\* the Cash Balance column of generate_statement(None, None) after its last row
RECURSIVE running_cash(_, _)
running_cash(transactions, starting_balance) ==
  IF transactions = <<>> THEN starting_balance
  ELSE running_cash(Tail(transactions),
                    RunningCashAfter(starting_balance, Head(transactions)))

\* -------------------------------------------------------- call outcomes
\* What a call leaves behind: the account, the Result it returns, the return
\* site (at), the tax it computed, and ck: every value it computed is in range.
Outcome(a, res, val, requested, available, ck) ==
  [acct |-> a, res |-> res, val |-> val, requested |-> requested,
   available |-> available, alloc |-> <<Zero, Zero, Zero>>, at |-> "", tax |-> Zero,
   liquidated |-> FALSE, ck |-> ck]

Ok(a, val, ck) == Outcome(a, "Ok", val, Zero, Zero, ck)

InsufficientFunds(a, requested, available, ck) ==
  Outcome(a, "InsufficientFunds", Zero, requested, available, ck)

NegativeAmount(a, amount) == Outcome(a, "NegativeAmount", amount, Zero, Zero, TRUE)

\* a failed expect/assert!: the call does not return
Panic(a, ck) == Outcome(a, "Panic", Zero, Zero, Zero, ck)

Checked(out) ==
  [out EXCEPT !.ck = /\ @
                     /\ InRange(out.acct)
                     /\ AllNum({out.val, out.requested, out.available, out.tax,
                                out.alloc[1], out.alloc[2], out.alloc[3]})]

\* an outcome with its return site, the tax computed and whether liquidate ran
At(out, at, tax, liquidated) ==
  [out EXCEPT !.at = at, !.tax = tax, !.liquidated = liquidated]

\* an outcome in range only if what ran beside it was
After(out, ck) == [out EXCEPT !.ck = @ /\ ck]

\* ------------------------------------------------------- trading engine
\* The four assertions at the end of buy (accounts.rs 264-267)
BuyAssertions(bf, af, amount, class) ==
  LET Purchases(a) == summarize_transactions(a, "Purchase")
      ClassValue(a) == SumSeq(ValuesOf(get_assets_of_type(a, class)))
      ClassCost(a)  == SumSeq(CostBasesOf(get_assets_of_type(a, class)))
  IN  /\ FRound(FSub(get_balance(af), get_balance(bf))) = Zero
      /\ FLt(FSub(FSub(Purchases(af), Purchases(bf)), amount), Q(1, 100))
      /\ FLt(FSub(FSub(ClassValue(af), ClassValue(bf)), amount), Q(1, 100))
      /\ FLt(FSub(FSub(ClassCost(af), ClassCost(bf)), amount), Q(1, 100))

\* every amount the assertions of buy compare is in range
BuyInRange(bf, af, amount) ==
  /\ InRange(bf)
  /\ InRange(af)
  /\ AllNum({amount, summarize_transactions(af, "Purchase"),
             SumSeq(CostBasesOf(af.assets))})

\* the end of buy: the assertions, then Ok(amount)
BuyEnd(af, amount, ck, asserted) ==
  IF ck /\ ~asserted THEN Panic(af, ck) ELSE Checked(Ok(af, amount, ck))

\* mutant of Bought: the new lot's cost basis is the price of one share
Bought_CostBasisPerShare(a, shares, price, asset_class, amount) ==
  [a EXCEPT !.cash_balance = FSub(@, amount),
            !.transactions = Append(@, Transaction("Purchase", amount)),
            !.assets = Append(@, Asset(asset_class, shares, price, price))]

\* mutant of Bought: the Purchase transaction is put at the head of the ledger
Bought_PrependsPurchase(a, shares, price, asset_class, amount) ==
  [a EXCEPT !.cash_balance = FSub(@, amount),
            !.transactions = <<Transaction("Purchase", amount)>> \o @,
            !.assets = Append(@, Asset(asset_class, shares, amount, price))]

\* mutant of Bought: the purchase is merged into the first lot of its class
Bought_MergesSameClass(a, shares, price, asset_class, amount) ==
  IF \E i \in 1..Len(a.assets) : a.assets[i].asset_class = asset_class
  THEN LET k == CHOOSE i \in 1..Len(a.assets) : a.assets[i].asset_class = asset_class
       IN  [a EXCEPT !.cash_balance = FSub(@, amount),
                     !.transactions = Append(@, Transaction("Purchase", amount)),
                     !.assets[k] = [@ EXCEPT !.shares = FAdd(@, shares),
                                             !.cost_basis = FAdd(@, amount),
                                             !.current_price = price]]
  ELSE [a EXCEPT !.cash_balance = FSub(@, amount),
                 !.transactions = Append(@, Transaction("Purchase", amount)),
                 !.assets = Append(@, Asset(asset_class, shares, amount, price))]

\* the account after the debit, the Purchase transaction and the new lot
Bought(a, shares, price, asset_class, amount) ==
  [a EXCEPT !.cash_balance = FSub(@, amount),
            !.transactions = Append(@, Transaction("Purchase", amount)),
            !.assets = Append(@, Asset(asset_class, shares, amount, price))]

BuyFrom(bf, af, amount, asset_class) ==
  BuyEnd(af, amount, BuyInRange(bf, af, amount), BuyAssertions(bf, af, amount, asset_class))

\* mutant of BuyAmount: a refused buy reports the cash that the debit would leave
BuyAmount_ReportsShortfall(a, shares, price, asset_class, amount) ==
  IF ~has_enough_cash(a, amount)
  THEN Checked(InsufficientFunds(a, amount, FSub(get_cash_balance(a), amount),
                                 AllNum({amount, FSub(get_cash_balance(a), amount)})))
  ELSE BuyFrom(a, Bought(a, shares, price, asset_class, amount), amount, asset_class)

BuyAmount(a, shares, price, asset_class, amount) ==
  IF ~has_enough_cash(a, amount)
  THEN Checked(InsufficientFunds(a, amount, get_cash_balance(a),
                                 AllNum({amount, FSub(get_cash_balance(a), amount)})))
  ELSE BuyFrom(a, Bought(a, shares, price, asset_class, amount), amount, asset_class)

buy(a, shares, price, asset_class) ==
  BuyAmount(a, shares, price, asset_class, FMul(price, shares))

\* mutant of CapGains: the lot's whole cost basis taken for its per-share cost
RECURSIVE CapGains_TotalCostBasis(_)
CapGains_TotalCostBasis(assets_to_sell) ==
  IF assets_to_sell = <<>> THEN Zero
  ELSE LET asset == assets_to_sell[1][1]
           shares == assets_to_sell[1][2]
       IN  FAdd(FMul(shares, FSub(asset.current_price, asset.cost_basis)),
                CapGains_TotalCostBasis(Tail(assets_to_sell)))

RECURSIVE CapGains(_)
CapGains(assets_to_sell) ==
  IF assets_to_sell = <<>> THEN Zero
  ELSE LET asset == assets_to_sell[1][1]
           shares == assets_to_sell[1][2]
           per_share_cb == FDiv(asset.cost_basis, asset.shares)
       IN  FAdd(FMul(shares, FSub(asset.current_price, per_share_cb)),
                CapGains(Tail(assets_to_sell)))

calc_cap_gains_tax(assets_to_sell) ==
  FMax(FMul(CapGains(assets_to_sell), Q(15, 100)), Zero)

\* mutant of SaleTransactions: one Sale transaction for the whole sale
SaleTransactions_OneForAll(assets_to_sell) ==
  IF assets_to_sell = <<>> THEN <<>>
  ELSE <<Transaction("Sale",
                     SumSeq([i \in 1..Len(assets_to_sell) |->
                               FMul(assets_to_sell[i][2],
                                    assets_to_sell[i][1].current_price)]))>>

SaleTransactions(assets_to_sell) ==
  [i \in 1..Len(assets_to_sell) |->
     Transaction("Sale", FMul(assets_to_sell[i][2], assets_to_sell[i][1].current_price))]

\* all_assets.iter().map(|a| (a.clone(), a.shares))
ShareTuples(all_assets) ==
  [i \in 1..Len(all_assets) |-> <<all_assets[i], all_assets[i].shares>>]

\* mutant of Liquidated: the tax is recorded but not taken from cash
Liquidated_TaxNotDebited(a, tax, proceeds) ==
  [a EXCEPT !.assets = <<>>,
            !.transactions =
               @ \o SaleTransactions(ShareTuples(a.assets))
                 \o (IF FGt(tax, Zero) THEN <<Transaction("Tax", tax)>> ELSE <<>>),
            !.cash_balance = FAdd(@, proceeds)]

\* mutant of Liquidated: the sold lots stay in the store
Liquidated_KeepsLots(a, tax, proceeds) ==
  [a EXCEPT !.transactions =
               @ \o SaleTransactions(ShareTuples(a.assets))
                 \o (IF FGt(tax, Zero) THEN <<Transaction("Tax", tax)>> ELSE <<>>),
            !.cash_balance =
               IF FGt(tax, Zero) THEN FSub(FAdd(@, proceeds), tax) ELSE FAdd(@, proceeds)]

\* the account after liquidate: no lots, a Sale per lot, the proceeds in cash,
\* and the tax, when positive, recorded and paid
Liquidated(a, tax, proceeds) ==
  [a EXCEPT !.assets = <<>>,
            !.transactions =
               @ \o SaleTransactions(ShareTuples(a.assets))
                 \o (IF FGt(tax, Zero) THEN <<Transaction("Tax", tax)>> ELSE <<>>),
            !.cash_balance =
               IF FGt(tax, Zero) THEN FSub(FAdd(@, proceeds), tax) ELSE FAdd(@, proceeds)]

LiquidateFor(a, tax, proceeds) ==
  Checked(At(Ok(Liquidated(a, tax, proceeds), FSub(proceeds, tax), AllNum({tax, proceeds})),
             "", tax, TRUE))

liquidate(a) ==
  LiquidateFor(a, calc_cap_gains_tax(ShareTuples(a.assets)), SumSeq(ValuesOf(a.assets)))

\* (a.current_price - a.cost_basis) / a.cost_basis, the sort key of sell
gain_rate(asset) ==
  FDiv(FSub(asset.current_price, asset.cost_basis), asset.cost_basis)

\* x placed after every element whose key is not greater (a stable sort's step)
RECURSIVE InsertByGainRate(_, _)
InsertByGainRate(sorted, x) ==
  IF sorted = <<>> THEN <<x>>
  ELSE IF FLt(gain_rate(x), gain_rate(sorted[1]))
       THEN <<x>> \o sorted
       ELSE <<sorted[1]>> \o InsertByGainRate(Tail(sorted), x)

RECURSIVE SortByGainRate(_)
SortByGainRate(lots) ==
  IF lots = <<>> THEN <<>>
  ELSE InsertByGainRate(SortByGainRate(SubSeq(lots, 1, Len(lots) - 1)), lots[Len(lots)])

\* the lot sold whole (accounts.rs 324-328)
TakeWhole(w, asset, asset_value, remainining_needed) ==
  [w EXCEPT !.cash_raised = FAdd(@, asset_value),
            !.assets_to_sell = Append(@, <<asset, asset.shares>>),
            !.ck = @ /\ AllNum({asset_value, remainining_needed})]

\* mutant of TakePart: the kept remainder keeps the lot's whole cost basis
TakePart_KeepsWholeCostBasis(w, asset, asset_value, remainining_needed, shares_to_sell, shares_to_keep) ==
  [w EXCEPT !.cash_raised = FAdd(@, FMul(shares_to_sell, asset.current_price)),
            !.assets_to_sell =
               Append(@, <<[asset EXCEPT !.shares = shares_to_sell,
                                         !.cost_basis =
                                            FMul(asset.cost_basis,
                                                 FDiv(shares_to_sell, asset.shares))],
                           shares_to_sell>>),
            !.assets_to_keep = Append(@, [asset EXCEPT !.shares = shares_to_keep]),
            !.ck = @ /\ AllNum({asset_value, remainining_needed,
                                shares_to_sell, shares_to_keep})]

\* the lot split into a sold and a kept portion (accounts.rs 329-348)
TakePart(w, asset, asset_value, remainining_needed, shares_to_sell, shares_to_keep) ==
  [w EXCEPT !.cash_raised = FAdd(@, FMul(shares_to_sell, asset.current_price)),
            !.assets_to_sell =
               Append(@, <<[asset EXCEPT !.shares = shares_to_sell,
                                         !.cost_basis =
                                            FMul(asset.cost_basis,
                                                 FDiv(shares_to_sell, asset.shares))],
                           shares_to_sell>>),
            !.assets_to_keep =
               Append(@, [asset EXCEPT !.cost_basis =
                                          FMul(asset.cost_basis,
                                               FDiv(shares_to_keep, asset.shares)),
                                       !.shares = shares_to_keep]),
            !.ck = @ /\ AllNum({asset_value, remainining_needed,
                                shares_to_sell, shares_to_keep})]

SplitLot(w, asset, asset_value, remainining_needed, shares_to_sell) ==
  TakePart(w, asset, asset_value, remainining_needed, shares_to_sell,
           FSub(asset.shares, shares_to_sell))

\* one iteration of the loop of sell (accounts.rs 317-349)
TakeFrom(w, asset, amount, asset_value, remainining_needed) ==
  IF FGe(w.cash_raised, amount)
  THEN [w EXCEPT !.assets_to_keep = Append(@, asset)]
  ELSE IF FLe(asset_value, remainining_needed)
  THEN TakeWhole(w, asset, asset_value, remainining_needed)
  ELSE SplitLot(w, asset, asset_value, remainining_needed,
                FDiv(remainining_needed, asset.current_price))

\* The loop of sell over the sorted lots of the class (accounts.rs 316-350);
\* w = [cash_raised, assets_to_sell, assets_to_keep, ck]
RECURSIVE SellWalk(_, _, _, _)
SellWalk(lots, amount, i, w) ==
  IF i > Len(lots) THEN w
  ELSE SellWalk(lots, amount, i + 1,
                TakeFrom(w, lots[i], amount, get_value(lots[i]),
                         FSub(amount, w.cash_raised)))

\* cash_raised = 0.0, assets_to_sell and assets_to_keep empty (accounts.rs 304-308)
NoneSold ==
  [cash_raised |-> Zero, assets_to_sell |-> <<>>, assets_to_keep |-> <<>>, ck |-> TRUE]

AssetsOf(assets_to_sell) == [i \in 1..Len(assets_to_sell) |-> assets_to_sell[i][1]]

\* mutant of Partition: every lot is a candidate, whatever its class
Partition_AnyClass(assets, class) == <<assets, <<>>>>

\* all_assets.into_iter().partition(|asset| asset.asset_class == class)
Partition(assets, class) ==
  LET OfClass(asset) == asset.asset_class = class
      NotOfClass(asset) == asset.asset_class # class
  IN  <<SelectSeq(assets, OfClass), SelectSeq(assets, NotOfClass)>>

\* mutant of LiquidateIfOver: the account is never liquidated
LiquidateIfOver_Never(a, amount) == Ok(a, Zero, TRUE)

\* if amount > self.get_balance() { self.liquidate()?; }  (accounts.rs 291-294)
LiquidateIfOver(a, amount) ==
  IF FGt(amount, get_balance(a)) THEN liquidate(a) ELSE Ok(a, Zero, TRUE)

\* mutant of PutBack: only the kept lots go back, the lots set aside for sale are lost
PutBack_DropsSold(a, other_assets, w) ==
  [a EXCEPT !.assets = other_assets \o w.assets_to_keep]

\* "put the shares back": both failure returns of sell (accounts.rs 354-355, 365-366)
PutBack(a, other_assets, w) ==
  [a EXCEPT !.assets = other_assets \o w.assets_to_keep \o AssetsOf(w.assets_to_sell)]

\* mutant of Taxed: the tax is taken from cash but no Tax transaction is recorded
Taxed_Unrecorded(a, tax) ==
  IF FGt(tax, Zero)
  THEN [a EXCEPT !.cash_balance = FSub(@, tax)]
  ELSE a

\* the tax, when positive, recorded and paid (accounts.rs 373-381)
Taxed(a, tax) ==
  IF FGt(tax, Zero)
  THEN [a EXCEPT !.cash_balance = FSub(@, tax),
                 !.transactions = Append(@, Transaction("Tax", tax))]
  ELSE a

\* the credit, the Sale transactions and the lots that stay (accounts.rs 383-396)
Credited(taxed, other_assets, w, amount) ==
  [taxed EXCEPT !.cash_balance = FAdd(@, amount),
                !.transactions = @ \o SaleTransactions(w.assets_to_sell),
                !.assets = other_assets \o w.assets_to_keep]

\* the successful end of sell (accounts.rs 373-396)
Commit(a, other_assets, w, tax, amount) ==
  Credited(Taxed(a, tax), other_assets, w, amount)

\* the return of sell when the class cannot raise the amount (accounts.rs 352-361)
SellShort(put_back, amount, cash_raised, liquidated, ck) ==
  IF ck /\ InRange(put_back) /\ ~validate_balance(put_back)
  THEN Panic(put_back, ck)
  ELSE Checked(At(InsufficientFunds(put_back, amount, cash_raised, ck),
                  "short", Zero, liquidated))

\* the return of sell when cash cannot pay the tax (accounts.rs 363-371)
SellUntaxed(put_back, tax, cash_balance, liquidated, ck) ==
  Checked(At(InsufficientFunds(put_back, tax, cash_balance, ck), "tax", tax, liquidated))

\* the return of sell after the sale (accounts.rs 398-400)
SellEnd(af, amount, tax, liquidated, ck) ==
  IF ck /\ InRange(af) /\ ~validate_balance(af)
  THEN Panic(af, ck)
  ELSE Checked(At(Ok(af, amount, ck), "sold", tax, liquidated))

\* sell once the loop has run and the tax on what it set aside is known
SellTaxed(a1, amount, other_assets, w, tax, liquidated, ck) ==
  IF FLt(w.cash_raised, amount)
  THEN SellShort(PutBack(a1, other_assets, w), amount, w.cash_raised, liquidated,
                 ck /\ IsNum(tax))
  ELSE IF FLt(a1.cash_balance, tax)
  THEN SellUntaxed(PutBack(a1, other_assets, w), tax, a1.cash_balance, liquidated,
                   ck /\ IsNum(tax))
  ELSE SellEnd(Commit(a1, other_assets, w, tax, amount), amount, tax, liquidated,
               ck /\ IsNum(tax))

SellWalked(a1, amount, other_assets, w, liquidated, ck) ==
  SellTaxed(a1, amount, other_assets, w, calc_cap_gains_tax(w.assets_to_sell),
            liquidated, ck /\ w.ck /\ IsNum(w.cash_raised))

\* every sort key of the lots is in range
GainRatesInRange(assets) == \A i \in 1..Len(assets) : IsNum(gain_rate(assets[i]))

SellParts(a, liq, amount, parts) ==
  SellWalked(liq.acct, amount, parts[2],
             SellWalk(SortByGainRate(parts[1]), amount, 1, NoneSold),
             liq.liquidated,
             liq.ck /\ InRange(a) /\ InRange(liq.acct) /\ GainRatesInRange(liq.acct.assets))

SellFrom(a, liq, amount, class) ==
  SellParts(a, liq, amount, Partition(liq.acct.assets, class))

sell(a, amount, class) ==
  IF ~validate_balance(a) THEN Panic(a, InRange(a))
  ELSE IF FLt(amount, Zero) THEN At(NegativeAmount(a, amount), "negative", Zero, FALSE)
  ELSE SellFrom(a, LiquidateIfOver(a, amount), amount, class)

\* ------------------------------------------------------------ rebalancer
\* need_for_equity and need_for_bond (accounts.rs 451-458, 493-500)
Needs(total_balance, alloc, target_equity_alloc, target_cash_alloc) ==
  [equity |-> FSub(FMul(target_equity_alloc, total_balance),
                   FMul(alloc[2], total_balance)),
   bond   |-> FSub(FSub(FSub(total_balance, FMul(total_balance, target_cash_alloc)),
                        FMul(target_equity_alloc, total_balance)),
                   FMul(alloc[3], total_balance)),
   ck     |-> AllNum({alloc[2], alloc[3]})]

NeedsInRange(n) == n.ck /\ AllNum({n.equity, n.bond, FAdd(n.bond, n.equity)})

\* need_for_bond *= ratio; need_for_equity *= ratio
Apportioned(n, ratio) ==
  [n EXCEPT !.equity = FMul(@, ratio), !.bond = FMul(@, ratio)]

\* the needs cut down to the cash at hand (accounts.rs 460-465)
Apportion(cash_balance, n) ==
  IF FLt(cash_balance, FAdd(n.bond, n.equity))
  THEN Apportioned(n, FSub(FDiv(cash_balance, FAdd(n.bond, n.equity)), Q(1, 1000)))
  ELSE n

\* if need > 0.0 { self.buy(10.0, need/10.0, class)?; }  (accounts.rs 467-479)
BuyIfNeeded(a, need, class) ==
  IF FGt(need, Zero)
  THEN buy(a, Q(10, 1), FDiv(need, Q(10, 1)), class)
  ELSE Ok(a, Zero, TRUE)

\* the assertion and the return of soft_rebalance (accounts.rs 481-483)
SoftEnd(total_balance, af, ck) ==
  IF ck /\ ~FLt(FAbs(FSub(total_balance, get_balance(af))), Q(1, 100))
  THEN Panic(af, ck)
  ELSE Checked([Ok(af, Zero, ck) EXCEPT !.alloc = get_asset_alloc(af), !.at = "soft"])

SoftBondBought(a, b1, b2, ck0) ==
  IF b2.res # "Ok" THEN [b2 EXCEPT !.ck = @ /\ ck0 /\ b1.ck, !.at = "bond buy"]
  ELSE SoftEnd(get_balance(a), b2.acct, ck0 /\ b1.ck /\ b2.ck)

SoftEquityBought(a, n, b1, ck0) ==
  IF b1.res # "Ok" THEN [b1 EXCEPT !.ck = @ /\ ck0, !.at = "equity buy"]
  ELSE SoftBondBought(a, b1, BuyIfNeeded(b1.acct, n.bond, "Bond"), ck0)

SoftBuys(a, n0, n) ==
  SoftEquityBought(a, n, BuyIfNeeded(a, n.equity, "Equity"),
                   InRange(a) /\ NeedsInRange(n0) /\ AllNum({n.equity, n.bond}))

SoftNeeds(a, n0) == SoftBuys(a, n0, Apportion(a.cash_balance, n0))

\* mutant of soft_rebalance: target_equity_alloc is not validated
soft_rebalance_EquityUnchecked(a, target_equity_alloc, target_cash_alloc) ==
  IF FGe(target_cash_alloc, Q(1, 1)) \/ FLt(target_cash_alloc, Zero)
  THEN At(NegativeAmount(a, target_cash_alloc), "invalid", Zero, FALSE)
  ELSE SoftNeeds(a, Needs(get_balance(a), get_asset_alloc(a),
                          target_equity_alloc, target_cash_alloc))

soft_rebalance(a, target_equity_alloc, target_cash_alloc) ==
  IF FGe(target_cash_alloc, Q(1, 1)) \/ FLt(target_cash_alloc, Zero)
  THEN At(NegativeAmount(a, target_cash_alloc), "invalid", Zero, FALSE)
  ELSE IF FGe(target_equity_alloc, Q(1, 1)) \/ FLt(target_equity_alloc, Zero)
  THEN At(NegativeAmount(a, target_equity_alloc), "invalid", Zero, FALSE)
  ELSE SoftNeeds(a, Needs(get_balance(a), get_asset_alloc(a),
                          target_equity_alloc, target_cash_alloc))

\* the buy that follows the sale, and the return (accounts.rs 504, 508, 510)
HardBought(sl, by, ck0) ==
  IF by.res # "Ok"
  THEN [by EXCEPT !.ck = @ /\ ck0 /\ sl.ck, !.at = "hard buy", !.tax = sl.tax]
  ELSE Checked([Ok(by.acct, Zero, ck0 /\ sl.ck /\ by.ck)
                  EXCEPT !.alloc = get_asset_alloc(by.acct),
                         !.at = "hard", !.tax = sl.tax])

\* let proceeds = self.sell(..)?; self.buy(proceeds/10.0, proceeds/10.0, to)?;
HardSold(sl, to, ck0) ==
  IF sl.res # "Ok" THEN [sl EXCEPT !.ck = @ /\ ck0, !.at = "hard sell"]
  ELSE HardBought(sl, buy(sl.acct, FDiv(sl.val, Q(10, 1)), FDiv(sl.val, Q(10, 1)), to), ck0)

\* the bond pair run after the equity pair
HardSecondPair(h, n) ==
  IF h.res = "Ok" /\ FLt(n.bond, Zero)
  THEN HardSold(sell(h.acct, FNeg(n.bond), "Bond"), "Equity", h.ck)
  ELSE h

\* mutant of HardNeeds: `if` in place of `else if`, both pairs may run
HardNeeds_BothPairs(s, n) ==
  IF FLt(n.equity, Zero)
  THEN HardSecondPair(HardSold(sell(s.acct, FNeg(n.equity), "Equity"), "Bond",
                               s.ck /\ n.ck /\ AllNum({n.equity, n.bond})), n)
  ELSE IF FLt(n.bond, Zero)
  THEN HardSold(sell(s.acct, FNeg(n.bond), "Bond"), "Equity",
                s.ck /\ n.ck /\ AllNum({n.equity, n.bond}))
  ELSE Checked([s EXCEPT !.ck = s.ck /\ n.ck /\ AllNum({n.equity, n.bond}),
                         !.at = "soft only"])

HardNeeds(s, n) ==
  IF FLt(n.equity, Zero)
  THEN HardSold(sell(s.acct, FNeg(n.equity), "Equity"), "Bond",
                s.ck /\ n.ck /\ AllNum({n.equity, n.bond}))
  ELSE IF FLt(n.bond, Zero)
  THEN HardSold(sell(s.acct, FNeg(n.bond), "Bond"), "Equity",
                s.ck /\ n.ck /\ AllNum({n.equity, n.bond}))
  ELSE Checked([s EXCEPT !.ck = s.ck /\ n.ck /\ AllNum({n.equity, n.bond}),
                         !.at = "soft only"])

HardAfterSoft(s, target_equity_alloc, target_cash_alloc) ==
  IF s.res # "Ok" THEN s
  ELSE HardNeeds(s, Needs(get_balance(s.acct), get_asset_alloc(s.acct),
                          target_equity_alloc, target_cash_alloc))

\* mutant of hard_rebalance: the corrective step without the soft_rebalance stage
hard_rebalance_SkipsSoft(a, target_equity_alloc, target_cash_alloc) ==
  HardAfterSoft(Checked(Ok(a, Zero, TRUE)), target_equity_alloc, target_cash_alloc)

hard_rebalance(a, target_equity_alloc, target_cash_alloc) ==
  HardAfterSoft(soft_rebalance(a, target_equity_alloc, target_cash_alloc),
                target_equity_alloc, target_cash_alloc)

\* ------------------------------------------------------ Account for BrokerageAccount
\* mutant of deposit: cash is credited but no Deposit transaction is recorded
deposit_Unrecorded(a, amount) ==
  IF FLt(amount, Zero) THEN NegativeAmount(a, amount)
  ELSE Checked(Ok([a EXCEPT !.cash_balance = FAdd(@, amount)], amount, TRUE))

\* mutant of deposit: a negative amount is clamped to 0.0 and recorded
deposit_ClampsNegative(a, amount) ==
  IF FLt(amount, Zero)
  THEN Checked(Ok([a EXCEPT !.transactions = Append(@, Transaction("Deposit", Zero))],
                  Zero, TRUE))
  ELSE Checked(Ok([a EXCEPT !.cash_balance = FAdd(@, amount),
                            !.transactions = Append(@, Transaction("Deposit", amount))],
                  amount, TRUE))

deposit(a, amount) ==
  IF FLt(amount, Zero) THEN NegativeAmount(a, amount)
  ELSE Checked(Ok([a EXCEPT !.cash_balance = FAdd(@, amount),
                            !.transactions = Append(@, Transaction("Deposit", amount))],
                  amount, TRUE))

\* mutant of Withdrawn: cash is debited but no Withdrawal transaction is recorded
Withdrawn_Unrecorded(a1, amount, at, tax, ck) ==
  Checked(At(Ok([a1 EXCEPT !.cash_balance = FSub(@, amount)], amount, ck), at, tax, FALSE))

\* the debit, the Withdrawal transaction and Ok(amount) (accounts.rs 631-640)
Withdrawn(a1, amount, at, tax, ck) ==
  Checked(At(Ok([a1 EXCEPT !.cash_balance = FSub(@, amount),
                           !.transactions = Append(@, Transaction("Withdrawal", amount))],
                amount, ck),
             at, tax, FALSE))

\* mutant of WithdrawSold: a failed sale still debits the amount and records a Withdrawal
WithdrawSold_DebitsOnFailure(sold, amount, ck) ==
  IF sold.res # "Ok"
  THEN [sold EXCEPT !.ck = @ /\ ck /\ IsNum(FSub(get_cash_balance(sold.acct), amount)),
                    !.acct = [@ EXCEPT !.cash_balance = FSub(@, amount),
                                       !.transactions =
                                          Append(@, Transaction("Withdrawal", amount))]]
  ELSE IF ~has_enough_cash(sold.acct, amount)
  THEN Checked(At(InsufficientFunds(sold.acct, amount, sold.acct.cash_balance,
                                    sold.ck /\ ck
                                    /\ IsNum(FSub(get_cash_balance(sold.acct), amount))),
                  "short after sale", sold.tax, FALSE))
  ELSE Withdrawn(sold.acct, amount, "sold and withdrawn", sold.tax,
                 sold.ck /\ ck /\ IsNum(FSub(get_cash_balance(sold.acct), amount)))

\* withdraw after the sale that covers the shortfall (accounts.rs 616-626)
WithdrawSold(sold, amount, ck) ==
  IF sold.res # "Ok"
  THEN [sold EXCEPT !.ck = @ /\ ck /\ IsNum(FSub(get_cash_balance(sold.acct), amount))]
  ELSE IF ~has_enough_cash(sold.acct, amount)
  THEN Checked(At(InsufficientFunds(sold.acct, amount, sold.acct.cash_balance,
                                    sold.ck /\ ck
                                    /\ IsNum(FSub(get_cash_balance(sold.acct), amount))),
                  "short after sale", sold.tax, FALSE))
  ELSE Withdrawn(sold.acct, amount, "sold and withdrawn", sold.tax,
                 sold.ck /\ ck /\ IsNum(FSub(get_cash_balance(sold.acct), amount)))

\* mutant of WithdrawShort: the shortfall is raised from the Bond lots
WithdrawShort_SellsBond(a, amount, w_tax_buffer) ==
  WithdrawSold(sell(a, w_tax_buffer, "Bond"), amount,
               IsNum(FSub(get_cash_balance(a), amount)) /\ IsNum(w_tax_buffer))

\* let w_tax_buffer = shortfall * 1.15; self.sell(w_tax_buffer, Equity)
WithdrawShort(a, amount, w_tax_buffer) ==
  WithdrawSold(sell(a, w_tax_buffer, "Equity"), amount,
               IsNum(FSub(get_cash_balance(a), amount)) /\ IsNum(w_tax_buffer))

withdraw(a, amount) ==
  IF FLt(amount, Zero) THEN NegativeAmount(a, amount)
  ELSE IF ~has_enough_cash(a, amount)
  THEN WithdrawShort(a, amount, FMul(FSub(amount, get_cash_balance(a)), Q(115, 100)))
  ELSE Withdrawn(a, amount, "withdrawn", Zero, IsNum(FSub(get_cash_balance(a), amount)))

\* the interest, when positive, credited and recorded (accounts.rs 676-684)
WithInterest(a, interest_amount) ==
  IF FGt(interest_amount, Zero)
  THEN [a EXCEPT !.cash_balance = FAdd(@, interest_amount),
                 !.transactions = Append(@, Transaction("Interest", interest_amount))]
  ELSE a

\* mutant of Repriced: the cost basis is marked up with the price
Repriced_RebasesCost(assets) ==
  [i \in 1..Len(assets) |->
     [assets[i] EXCEPT !.current_price =
        FMul(@, FAdd(Q(1, 1), FDiv(get_rate_of_return(assets[i]), Q(100, 1)))),
                       !.cost_basis =
        FMul(@, FAdd(Q(1, 1), FDiv(get_rate_of_return(assets[i]), Q(100, 1))))]]

\* asset.current_price *= 1.0 + (asset.get_rate_of_return() / 100.0)
Repriced(assets) ==
  [i \in 1..Len(assets) |->
     [assets[i] EXCEPT !.current_price =
        FMul(@, FAdd(Q(1, 1), FDiv(get_rate_of_return(assets[i]), Q(100, 1))))]]

\* the sum over the lots of new_value - old_value (accounts.rs 687-692)
PeriodGains(assets, new_assets) ==
  SumSeq([i \in 1..Len(assets) |->
            FSub(FMul(new_assets[i].current_price, new_assets[i].shares),
                 FMul(assets[i].current_price, assets[i].shares))])

\* the period gains, when positive, recorded (accounts.rs 695-704)
AccrueEnd(a2, interest_amount, period_gains) ==
  Checked(Ok(IF FGt(period_gains, Zero)
             THEN [a2 EXCEPT !.transactions =
                                Append(@, Transaction("UnrealizedGain", period_gains))]
             ELSE a2,
             FAdd(interest_amount, period_gains),
             AllNum({interest_amount, period_gains})))

AccrueGains(a1, interest_amount, new_assets) ==
  AccrueEnd([a1 EXCEPT !.assets = new_assets], interest_amount,
            PeriodGains(a1.assets, new_assets))

AccrueAssets(a1, interest_amount) ==
  AccrueGains(a1, interest_amount, Repriced(a1.assets))

AccrueInterest(a, interest_amount) ==
  AccrueAssets(WithInterest(a, interest_amount), interest_amount)

accrue(a) ==
  AccrueInterest(a, FMul(a.cash_balance, FDiv(a.cash_interest, Q(100, 1))))

\* ------------------------------------------------ Account for CheckingSavingsAccount
CheckingSavingsAccount(balance, interest_rate, overdraft_limit, overdraft_fee) ==
  [starting_balance |-> balance, balance |-> balance, interest_rate |-> interest_rate,
   overdraft_limit |-> overdraft_limit, overdraft_fee |-> overdraft_fee,
   transactions |-> <<>>]

checking_deposit(c, amount) ==
  IF FLt(amount, Zero) THEN [acct |-> c, res |-> "NegativeAmount", val |-> amount]
  ELSE [acct |-> [c EXCEPT !.balance = FAdd(@, amount),
                           !.transactions = Append(@, Transaction("Deposit", amount))],
        res |-> "Ok", val |-> amount]

\* mutant of TransferDeposited: the withdrawn amount never reaches the other account
TransferDeposited_NotCredited(w, d) ==
  [out |-> [w EXCEPT !.val = d.val],
   other |-> [d.acct EXCEPT !.balance = FSub(@, d.val)]]

\* match other.deposit(withdrawn_amount, ..)  (accounts.rs 665-671)
TransferDeposited(w, d) ==
  IF d.res = "Ok"
  THEN [out |-> [w EXCEPT !.val = d.val, !.ck = @ /\ IsNum(d.acct.balance)],
        other |-> d.acct]
  ELSE [out |-> [deposit(w.acct, w.val) EXCEPT !.res = "DepositFailed", !.val = Zero,
                                                !.ck = @ /\ w.ck],
        other |-> d.acct]

\* mutant of TransferWithdrawn: the deposit leg receives the withdrawn amount negated
TransferWithdrawn_DepositsNegated(w, c) ==
  IF w.res # "Ok" THEN [out |-> w, other |-> c]
  ELSE TransferDeposited(w, checking_deposit(c, FNeg(w.val)))

TransferWithdrawn(w, c) ==
  IF w.res # "Ok" THEN [out |-> w, other |-> c]
  ELSE TransferDeposited(w, checking_deposit(c, w.val))

\* BrokerageAccount::transfer: [out |-> what self is left with, other |-> the target]
transfer(a, c, amount) ==
  IF FLt(amount, Zero) THEN [out |-> NegativeAmount(a, amount), other |-> c]
  ELSE TransferWithdrawn(withdraw(a, amount), c)

\* mutant of checking_withdraw: the overdraft fee is charged on a refused withdrawal
checking_withdraw_FeeOnRefusal(c, amount) ==
  IF FLt(amount, Zero)
  THEN [acct |-> c, res |-> "NegativeAmount", val |-> amount,
        requested |-> Zero, available |-> Zero]
  ELSE IF FGt(amount, FAdd(c.balance, c.overdraft_limit))
  THEN [acct |-> [c EXCEPT !.balance = FSub(@, c.overdraft_fee),
                           !.transactions = Append(@, Transaction("Fee", c.overdraft_fee))],
        res |-> "InsufficientFunds", val |-> Zero,
        requested |-> amount, available |-> c.balance]
  ELSE IF FGt(amount, c.balance)
  THEN [acct |-> [c EXCEPT !.balance = FSub(FSub(@, c.overdraft_fee), amount),
                           !.transactions =
                              @ \o <<Transaction("Fee", c.overdraft_fee),
                                     Transaction("Withdrawal", amount)>>],
        res |-> "Ok", val |-> amount, requested |-> Zero, available |-> Zero]
  ELSE [acct |-> [c EXCEPT !.balance = FSub(@, amount),
                           !.transactions = Append(@, Transaction("Withdrawal", amount))],
        res |-> "Ok", val |-> amount, requested |-> Zero, available |-> Zero]

\* CheckingSavingsAccount::withdraw: the overdraft fee is charged when the
\* amount exceeds the balance but not the balance plus the overdraft limit
checking_withdraw(c, amount) ==
  IF FLt(amount, Zero)
  THEN [acct |-> c, res |-> "NegativeAmount", val |-> amount,
        requested |-> Zero, available |-> Zero]
  ELSE IF FGt(amount, FAdd(c.balance, c.overdraft_limit))
  THEN [acct |-> c, res |-> "InsufficientFunds", val |-> Zero,
        requested |-> amount, available |-> c.balance]
  ELSE IF FGt(amount, c.balance)
  THEN [acct |-> [c EXCEPT !.balance = FSub(FSub(@, c.overdraft_fee), amount),
                           !.transactions =
                              @ \o <<Transaction("Fee", c.overdraft_fee),
                                     Transaction("Withdrawal", amount)>>],
        res |-> "Ok", val |-> amount, requested |-> Zero, available |-> Zero]
  ELSE [acct |-> [c EXCEPT !.balance = FSub(@, amount),
                           !.transactions = Append(@, Transaction("Withdrawal", amount))],
        res |-> "Ok", val |-> amount, requested |-> Zero, available |-> Zero]

\* match other.deposit(withdrawn_amount, ..) of CheckingSavingsAccount::transfer
CheckingTransferDeposited(w, d) ==
  IF d.res = "Ok"
  THEN [out |-> After(d, IsNum(w.acct.balance)), other |-> w.acct]
  ELSE [out |-> [d EXCEPT !.res = "DepositFailed", !.val = Zero],
        other |-> checking_deposit(w.acct, w.val).acct]

CheckingTransferWithdrawn(w, a) ==
  IF w.res # "Ok"
  THEN [out |-> Outcome(a, w.res, w.val, w.requested, w.available, TRUE), other |-> w.acct]
  ELSE CheckingTransferDeposited(w, deposit(a, w.val))

\* CheckingSavingsAccount::transfer into the brokerage account:
\* [out |-> what the brokerage account is left with, other |-> self]
checking_transfer(c, a, amount) ==
  IF FLt(amount, Zero) THEN [out |-> NegativeAmount(a, amount), other |-> c]
  ELSE CheckingTransferWithdrawn(checking_withdraw(c, amount), a)

\* ---------------------------------------------------------- state machine
VARIABLES
  acct,    \* the BrokerageAccount
  other,   \* the CheckingSavingsAccount it transfers to
  pre,     \* acct and other as they were when the last call was made
  last,    \* the last call: operation, arguments and what it returned
  calls    \* number of calls made so far

vars == <<acct, other, pre, last, calls>>

\* inputs of the calls
StartingBalances == {Q(100, 1)}
CashInterests == {Zero, Q(5, 1)}
DepositAmounts == {Q(-5, 1), Q(40, 1)}
WithdrawAmounts == {Q(-5, 1), Q(30, 1), Q(60, 1), Q(97, 1)}
TransferAmounts == {Q(-5, 1), Q(30, 1), Q(97, 1)}
TransferInAmounts == {Q(-5, 1), Q(30, 1), Q(60, 1), Q(100, 1)}
BuyOrders == {<<Q(9, 1), Q(11, 1), "Equity">>, <<Q(4, 1), Q(5, 1), "Equity">>,
              <<Q(2, 1), Q(10, 1), "Bond">>, <<Q(1, 1), Q(3, 1), "Other">>}
SellOrders == {<<Q(-1, 1), "Equity">>, <<Q(22, 1), "Equity">>, <<Q(99, 1), "Equity">>,
               <<Q(500, 1), "Equity">>, <<Q(10, 1), "Bond">>, <<Q(3, 1), "Other">>}
RebalanceTargets == {<<Q(7, 10), Q(1, 10)>>, <<Q(1, 10), Q(1, 10)>>, <<Q(1, 1), Q(1, 10)>>}

NoArgs ==
  [amount |-> Zero, class |-> "", shares |-> Zero, price |-> Zero,
   target_equity |-> Zero, target_cash |-> Zero]

Call(op, args, out) ==
  [op |-> op, amount |-> args.amount, class |-> args.class, shares |-> args.shares,
   price |-> args.price, target_equity |-> args.target_equity,
   target_cash |-> args.target_cash,
   res |-> out.res, val |-> out.val, requested |-> out.requested,
   available |-> out.available, alloc |-> out.alloc, at |-> out.at, tax |-> out.tax,
   liquidated |-> out.liquidated]

Init ==
  /\ acct \in {BrokerageAccount(sb, ci) : sb \in StartingBalances, ci \in CashInterests}
  /\ other = CheckingSavingsAccount(Q(50, 1), Q(1, 2), Q(20, 1), Q(10, 1))
  /\ pre = [acct |-> acct, other |-> other]
  /\ last = Call("new", NoArgs, Ok(acct, Zero, TRUE))
  /\ calls = 0

CanCall == calls < MaxCalls /\ last.res # "Panic"

\* one call on acct: it leaves out.acct behind and returns out
Step(op, args, out, c) ==
  /\ CanCall
  /\ out.ck
  /\ acct' = out.acct
  /\ other' = c
  /\ pre' = [acct |-> acct, other |-> other]
  /\ last' = Call(op, args, out)
  /\ calls' = calls + 1

Deposit ==
  \E amount \in DepositAmounts :
    Step("deposit", [NoArgs EXCEPT !.amount = amount], deposit(acct, amount), other)

Withdraw ==
  \E amount \in WithdrawAmounts :
    Step("withdraw", [NoArgs EXCEPT !.amount = amount], withdraw(acct, amount), other)

\* one call that also acts on the other account
StepBoth(op, args, t) == Step(op, args, t.out, t.other)

Transfer ==
  \E amount \in TransferAmounts :
    StepBoth("transfer", [NoArgs EXCEPT !.amount = amount], transfer(acct, other, amount))

TransferIn ==
  \E amount \in TransferInAmounts :
    StepBoth("transfer_in", [NoArgs EXCEPT !.amount = amount],
             checking_transfer(other, acct, amount))

Accrue == Step("accrue", NoArgs, accrue(acct), other)

Buy ==
  \E o \in BuyOrders :
    Step("buy", [NoArgs EXCEPT !.shares = o[1], !.price = o[2], !.class = o[3]],
         buy(acct, o[1], o[2], o[3]), other)

Sell ==
  \E o \in SellOrders :
    Step("sell", [NoArgs EXCEPT !.amount = o[1], !.class = o[2]],
         sell(acct, o[1], o[2]), other)

Liquidate == Step("liquidate", NoArgs, liquidate(acct), other)

SoftRebalance ==
  \E t \in RebalanceTargets :
    Step("soft_rebalance", [NoArgs EXCEPT !.target_equity = t[1], !.target_cash = t[2]],
         soft_rebalance(acct, t[1], t[2]), other)

HardRebalance ==
  \E t \in RebalanceTargets :
    Step("hard_rebalance", [NoArgs EXCEPT !.target_equity = t[1], !.target_cash = t[2]],
         hard_rebalance(acct, t[1], t[2]), other)

Next ==
  \/ Deposit
  \/ Withdraw
  \/ Transfer
  \/ TransferIn
  \/ Accrue
  \/ Buy
  \/ Sell
  \/ Liquidate
  \/ SoftRebalance
  \/ HardRebalance

Spec == Init /\ [][Next]_vars

\* A second state machine: buy, accrue and sell only, on fewer inputs, one call
\* longer, so that lots bought at different prices meet in one sale.
TradeBuyOrders == {<<Q(9, 1), Q(5, 1), "Equity">>, <<Q(4, 1), Q(5, 1), "Equity">>,
                   <<Q(20, 1), Q(5, 1), "Equity">>}
TradeSellOrders == {<<Q(22, 1), "Equity">>, <<Q(60, 1), "Equity">>}
TradeWithdrawAmounts == {Q(60, 1), Q(80, 1)}

CanTrade == calls < MaxTrades /\ last.res # "Panic"

Trade(op, args, out) ==
  /\ CanTrade
  /\ out.ck
  /\ acct' = out.acct
  /\ other' = other
  /\ pre' = [acct |-> acct, other |-> other]
  /\ last' = Call(op, args, out)
  /\ calls' = calls + 1

TradeBuy ==
  \E o \in TradeBuyOrders :
    Trade("buy", [NoArgs EXCEPT !.shares = o[1], !.price = o[2], !.class = o[3]],
          buy(acct, o[1], o[2], o[3]))

TradeAccrue == Trade("accrue", NoArgs, accrue(acct))

TradeSell ==
  \E o \in TradeSellOrders :
    Trade("sell", [NoArgs EXCEPT !.amount = o[1], !.class = o[2]], sell(acct, o[1], o[2]))

TradeWithdraw ==
  \E amount \in TradeWithdrawAmounts :
    Trade("withdraw", [NoArgs EXCEPT !.amount = amount], withdraw(acct, amount))

NextTrade ==
  \/ TradeBuy
  \/ TradeAccrue
  \/ TradeSell
  \/ TradeWithdraw

SpecTrade == Init /\ [][NextTrade]_vars

\* A third state machine: the rebalancer on an account that buys and accrues,
\* with targets on both sides of every bound the rebalancer checks.
AllocationBuyOrders == {<<Q(4, 1), Q(5, 1), "Equity">>, <<Q(10, 1), Q(5, 1), "Equity">>,
                        <<Q(2, 1), Q(10, 1), "Bond">>, <<Q(1, 1), Q(1249, 25), "Other">>}
AllocationTargets == {<<Q(7, 10), Q(1, 10)>>, <<Q(1, 10), Q(1, 5)>>, <<Q(7, 10), Q(1, 5)>>,
                      <<Q(7, 10), Zero>>, <<Q(1, 10), Q(4, 5)>>, <<Zero, Zero>>,
                      <<Q(1, 1), Q(1, 10)>>, <<Q(-1, 10), Q(1, 10)>>,
                      <<Q(1, 10), Q(1, 1)>>, <<Q(1, 10), Q(-1, 10)>>}

CanRebalance == calls < MaxRebalances /\ last.res # "Panic"

Rebalance(op, args, out) ==
  /\ CanRebalance
  /\ out.ck
  /\ acct' = out.acct
  /\ other' = other
  /\ pre' = [acct |-> acct, other |-> other]
  /\ last' = Call(op, args, out)
  /\ calls' = calls + 1

RebalanceBuy ==
  \E o \in AllocationBuyOrders :
    Rebalance("buy", [NoArgs EXCEPT !.shares = o[1], !.price = o[2], !.class = o[3]],
              buy(acct, o[1], o[2], o[3]))

RebalanceAccrue == Rebalance("accrue", NoArgs, accrue(acct))

RebalanceSoft ==
  \E t \in AllocationTargets :
    Rebalance("soft_rebalance",
              [NoArgs EXCEPT !.target_equity = t[1], !.target_cash = t[2]],
              soft_rebalance(acct, t[1], t[2]))

RebalanceHard ==
  \E t \in AllocationTargets :
    Rebalance("hard_rebalance",
              [NoArgs EXCEPT !.target_equity = t[1], !.target_cash = t[2]],
              hard_rebalance(acct, t[1], t[2]))

NextRebalance ==
  \/ RebalanceBuy
  \/ RebalanceAccrue
  \/ RebalanceSoft
  \/ RebalanceHard

SpecRebalance == Init /\ [][NextRebalance]_vars

\* A fourth state machine: the calls made on the CheckingSavingsAccount itself.
CheckingDepositAmounts == {Q(-5, 1), Q(15, 1)}
CheckingWithdrawAmounts == {Q(-5, 1), Q(30, 1), Q(60, 1), Q(70, 1), Q(71, 1)}
CheckingTransferAmounts == {Q(30, 1), Q(60, 1), Q(100, 1)}

CanCheck == calls < MaxChecks

\* one call on other: it leaves c behind, and a on the brokerage side
Check(op, amount, a, c, res, val, requested, available) ==
  /\ CanCheck
  /\ IsNum(c.balance)
  /\ acct' = a
  /\ other' = c
  /\ pre' = [acct |-> acct, other |-> other]
  /\ last' = Call(op, [NoArgs EXCEPT !.amount = amount],
                  Outcome(a, res, val, requested, available, TRUE))
  /\ calls' = calls + 1

CheckDeposited(amount, d) ==
  Check("checking_deposit", amount, acct, d.acct, d.res, d.val, Zero, Zero)

CheckingDeposit ==
  \E amount \in CheckingDepositAmounts :
    CheckDeposited(amount, checking_deposit(other, amount))

CheckWithdrawn(amount, w) ==
  Check("checking_withdraw", amount, acct, w.acct, w.res, w.val, w.requested, w.available)

CheckingWithdraw ==
  \E amount \in CheckingWithdrawAmounts :
    CheckWithdrawn(amount, checking_withdraw(other, amount))

CheckTransferred(amount, t) ==
  /\ t.out.ck
  /\ Check("transfer_in", amount, t.out.acct, t.other, t.out.res, t.out.val,
           t.out.requested, t.out.available)

CheckingTransfer ==
  \E amount \in CheckingTransferAmounts :
    CheckTransferred(amount, checking_transfer(other, acct, amount))

NextChecking ==
  \/ CheckingDeposit
  \/ CheckingWithdraw
  \/ CheckingTransfer

SpecChecking == Init /\ [][NextChecking]_vars

\* ----------------------------------------------------- observing a call
\* The quantities the properties below compare, read off the state alone.
LedgerTotal(txs, types) ==
  LET InTypes(t) == t.transaction_type \in types
  IN  SumSeq(AmountsOf(SelectSeq(txs, InTypes)))

ClassLots(lots, class) ==
  LET OfClass(asset) == asset.asset_class = class
  IN  SelectSeq(lots, OfClass)

ClassValue(lots, class) == SumSeq(ValuesOf(ClassLots(lots, class)))

ClassCost(lots, class) == SumSeq(CostBasesOf(ClassLots(lots, class)))

TotalValue(lots) == SumSeq(ValuesOf(lots))

\* value above cost basis, summed over the lots
UnrealizedGain(lots) == FSub(TotalValue(lots), SumSeq(CostBasesOf(lots)))

TotalBalance(a) == FAdd(a.cash_balance, TotalValue(a.assets))

\* the lots as a bag: how many lots with each (class, shares, cost basis, price)
LotBag(lots) ==
  [l \in {lots[i] : i \in 1..Len(lots)} |-> Cardinality({i \in 1..Len(lots) : lots[i] = l})]

LedgerGrew ==
  /\ Len(acct.transactions) >= Len(pre.acct.transactions)
  /\ SubSeq(acct.transactions, 1, Len(pre.acct.transactions)) = pre.acct.transactions

\* the transactions the last call appended
Appended ==
  SubSeq(acct.transactions, Len(pre.acct.transactions) + 1, Len(acct.transactions))

TaxAppended == LedgerTotal(Appended, {"Tax"})

Unchanged(field) == acct[field] = pre.acct[field]

\* ------------------------------------------------------------- properties

\* C1: in every reachable state the total balance (cash + sum of lot values)
\* equals starting_balance + Deposit + Interest + UnrealizedGain amounts
\* - Withdrawal - Fee - Tax amounts of the ledger, validate_balance returns Ok
\* and no call has tripped a balance check.
C1_BalanceMatchesLedger ==
  /\ TotalBalance(acct) =
       FSub(FAdd(acct.starting_balance,
                 LedgerTotal(acct.transactions, {"Deposit", "Interest", "UnrealizedGain"})),
            LedgerTotal(acct.transactions, {"Withdrawal", "Fee", "Tax"}))
  /\ validate_balance(acct)
  /\ last.res # "Panic"

C1_Witness ==
  /\ acct.assets # <<>>
  /\ FGt(LedgerTotal(acct.transactions, {"Tax"}), Zero)
  /\ FGt(LedgerTotal(acct.transactions, {"UnrealizedGain"}), Zero)
  /\ C1_BalanceMatchesLedger

\* C2: a successful buy(shares, price, class) decreases cash by shares*price,
\* increases the value and the cost basis of the lots of the class by
\* shares*price, leaves the total balance unchanged and returns shares*price.
C2_BuyMovesCashIntoLot ==
  (last.op = "buy" /\ last.res = "Ok") =>
    LET amount == FMul(last.shares, last.price)
    IN  /\ acct.cash_balance = FSub(pre.acct.cash_balance, amount)
        /\ ClassValue(acct.assets, last.class) =
             FAdd(ClassValue(pre.acct.assets, last.class), amount)
        /\ ClassCost(acct.assets, last.class) =
             FAdd(ClassCost(pre.acct.assets, last.class), amount)
        /\ TotalBalance(acct) = TotalBalance(pre.acct)
        /\ last.val = amount

C2_Witness ==
  /\ last.op = "buy" /\ last.res = "Ok"
  /\ ClassLots(pre.acct.assets, last.class) # <<>>
  /\ FGt(FMul(last.shares, last.price), Zero)

\* C3: for every sell(amount, class) that returns Ok, cash after = cash before
\* + amount - tax debited, the value of the lots of the class decreases by
\* exactly amount, and the total balance decreases by exactly the tax paid.
C3_SellCreditsAmountLessTax ==
  (last.op = "sell" /\ last.res = "Ok") =>
    /\ LedgerGrew
    /\ acct.cash_balance = FSub(FAdd(pre.acct.cash_balance, last.amount), TaxAppended)
    /\ ClassValue(acct.assets, last.class) =
         FSub(ClassValue(pre.acct.assets, last.class), last.amount)
    /\ TotalBalance(acct) = FSub(TotalBalance(pre.acct), TaxAppended)
    /\ (TxOfType(Appended, "Tax") = <<>>) => TotalBalance(acct) = TotalBalance(pre.acct)

C3_Witness ==
  /\ last.op = "sell" /\ last.res = "Ok"
  /\ FGt(last.amount, Zero)
  /\ FGt(TaxAppended, Zero)
  /\ ClassLots(acct.assets, last.class) # <<>>

\* C4: for every sell that returns InsufficientFunds, the lot store (the
\* sequence of lots), the cash balance and the ledger are as before the call.
C4_FailedSellLeavesState ==
  (last.op = "sell" /\ last.res = "InsufficientFunds") =>
    /\ Unchanged("assets")
    /\ Unchanged("cash_balance")
    /\ Unchanged("transactions")

\* C5: when sell raises the amount but cash is less than the tax, it returns
\* InsufficientFunds{requested = tax, available = cash_balance}, debits no tax,
\* appends no transaction, and the lot store holds exactly the lots it held
\* before: the same number of lots, each with its original shares and cost basis.
C5_TaxShortfallRestoresLots ==
  (last.op = "sell" /\ last.at = "tax") =>
    /\ last.res = "InsufficientFunds"
    /\ last.requested = last.tax
    /\ last.available = pre.acct.cash_balance
    /\ Unchanged("cash_balance")
    /\ Unchanged("transactions")
    /\ Len(acct.assets) = Len(pre.acct.assets)
    /\ LotBag(acct.assets) = LotBag(pre.acct.assets)

\* C6: sell(amount, class) with 0 <= amount <= total balance and the lots of
\* the class worth less than amount returns InsufficientFunds{requested =
\* amount, available = value of the lots of the class}; cash, ledger and every
\* lot's shares, cost basis and price are as before the call.
C6_ShortSaleIsRolledBack ==
  ( /\ last.op = "sell"
    /\ FGe(last.amount, Zero)
    /\ FLe(last.amount, TotalBalance(pre.acct))
    /\ FLt(ClassValue(pre.acct.assets, last.class), last.amount) ) =>
    /\ last.res = "InsufficientFunds"
    /\ last.requested = last.amount
    /\ last.available = ClassValue(pre.acct.assets, last.class)
    /\ Unchanged("cash_balance")
    /\ Unchanged("transactions")
    /\ LotBag(acct.assets) = LotBag(pre.acct.assets)

C6_Witness ==
  /\ last.op = "sell"
  /\ FLe(last.amount, TotalBalance(pre.acct))
  /\ ClassLots(pre.acct.assets, last.class) # <<>>
  /\ FLt(ClassValue(pre.acct.assets, last.class), last.amount)
  /\ last.res = "InsufficientFunds"

\* C7: after sell(amount, class) with amount greater than the total balance
\* the account holds no lots, its total balance equals its cash balance, and
\* the total balance differs from the pre-call total only by the tax recorded
\* in the ledger during the call.
C7_OverBalanceSellLiquidates ==
  (last.op = "sell" /\ FGt(last.amount, TotalBalance(pre.acct))) =>
    /\ acct.assets = <<>>
    /\ TotalBalance(acct) = acct.cash_balance
    /\ LedgerGrew
    /\ TotalBalance(acct) = FSub(TotalBalance(pre.acct), TaxAppended)

C7_Witness ==
  /\ last.op = "sell" /\ FGt(last.amount, TotalBalance(pre.acct))
  /\ pre.acct.assets # <<>>
  /\ FGt(TaxAppended, Zero)
  /\ acct.assets = <<>>

C9_LiquidateConvertsAllToCash ==
  (last.op = "liquidate") =>
    /\ last.res = "Ok"
    /\ acct.assets = <<>>
    /\ get_asset_alloc(acct) = <<Q(1, 1), Zero, Zero>>
    /\ LedgerGrew
    /\ acct.cash_balance =
         FSub(FAdd(pre.acct.cash_balance, TotalValue(pre.acct.assets)), TaxAppended)
    /\ TotalBalance(acct) = FSub(TotalBalance(pre.acct), TaxAppended)
    /\ last.val = FSub(TotalValue(pre.acct.assets), TaxAppended)

C9_Witness ==
  /\ last.op = "liquidate" /\ last.res = "Ok"
  /\ Len(pre.acct.assets) >= 2
  /\ FGt(TaxAppended, Zero)

\* C10: the tax debited by one successful sell or liquidate is
\* max(0, 0.15 * realized gain), the realized gain being the sum over the sold
\* lots and lot-portions of shares_sold * (current_price - cost_basis / shares),
\* i.e. the fall of the lots' total (value - cost basis) over the call; a Tax
\* transaction is appended exactly when that tax is > 0, one, with that amount.
C10_TaxIsFifteenPercentOfNetGain ==
  (last.op \in {"sell", "liquidate"} /\ last.res = "Ok") =>
    LET realized == FSub(UnrealizedGain(pre.acct.assets), UnrealizedGain(acct.assets))
        expected == FMax(Zero, FMul(Q(15, 100), realized))
        proceeds == FSub(TotalValue(pre.acct.assets), TotalValue(acct.assets))
        debited  == FSub(FAdd(pre.acct.cash_balance, proceeds), acct.cash_balance)
    IN  /\ LedgerGrew
        /\ debited = expected
        /\ TxOfType(Appended, "Tax") =
             IF FGt(expected, Zero) THEN <<Transaction("Tax", expected)>> ELSE <<>>

C10_Witness ==
  /\ last.op \in {"sell", "liquidate"} /\ last.res = "Ok"
  /\ Len(pre.acct.assets) >= 2
  /\ Len(TxOfType(Appended, "Tax")) = 1
  /\ FGt(UnrealizedGain(pre.acct.assets), UnrealizedGain(acct.assets))

\* the lots of the class before and after the last call
LotsBefore == ClassLots(pre.acct.assets, last.class)

LotsAfter == ClassLots(acct.assets, last.class)

\* (current_price - cost_basis/shares) / (cost_basis/shares)
PerShareGainRatio(lot) ==
  FDiv(FSub(lot.current_price, FDiv(lot.cost_basis, lot.shares)),
       FDiv(lot.cost_basis, lot.shares))

\* m is what is left of lot l after part of it was sold
RemainderOf(l, m) ==
  /\ m.asset_class = l.asset_class
  /\ m.current_price = l.current_price
  /\ FLt(m.shares, l.shares)
  /\ FDiv(m.cost_basis, m.shares) = FDiv(l.cost_basis, l.shares)

\* lot l was sold, wholly or partly: it is no longer held as it was
Touched(l) == \A k \in 1..Len(LotsAfter) : LotsAfter[k] # l

\* lot l was sold wholly: neither it nor a remainder of it is held
WhollySold(l) ==
  \A k \in 1..Len(LotsAfter) : LotsAfter[k] # l /\ ~RemainderOf(l, LotsAfter[k])

\* C11: after a successful sell(amount, class), whenever a lot of the class
\* was sold, wholly or partly, every lot of the class with a strictly lower
\* per-share unrealized-gain ratio has been sold wholly.
C11_SoldInPerShareGainOrder ==
  (last.op = "sell" /\ last.res = "Ok") =>
    \A i, j \in 1..Len(LotsBefore) :
      (Touched(LotsBefore[i])
       /\ FLt(PerShareGainRatio(LotsBefore[j]), PerShareGainRatio(LotsBefore[i])))
        => WhollySold(LotsBefore[j])

\* what the loop of the last sell set aside and kept, from the lots it started with
LastWalk ==
  SellWalk(SortByGainRate(Partition(pre.acct.assets, last.class)[1]), last.amount, 1, NoneSold)

\* sold portion sp and kept remainder kp are the two parts of lot l
SplitOf(l, sp, kp) ==
  /\ sp.asset_class = l.asset_class /\ kp.asset_class = l.asset_class
  /\ sp.current_price = l.current_price
  /\ kp.current_price = l.current_price
  /\ FGt(sp.shares, Zero) /\ FGt(kp.shares, Zero)
  /\ FAdd(sp.shares, kp.shares) = l.shares
  /\ FDiv(kp.cost_basis, l.cost_basis) = FDiv(kp.shares, l.shares)
  /\ IsNum(FDiv(kp.shares, l.shares))
  /\ FAdd(sp.cost_basis, kp.cost_basis) = l.cost_basis

Without(seq, i) == SubSeq(seq, 1, i - 1) \o SubSeq(seq, i + 1, Len(seq))

\* how many lots the loop split: each lot it started with gives one entry, a split lot two
SplitCount(w) == Len(w.assets_to_sell) + Len(w.assets_to_keep) - Len(LotsBefore)

\* lot i was split into sold portion s and kept remainder k, every other lot
\* went whole to one of the two lists
SplitAt(w, i, s, k) ==
  /\ SplitOf(LotsBefore[i], w.assets_to_sell[s][1], w.assets_to_keep[k])
  /\ w.assets_to_sell[s][2] = w.assets_to_sell[s][1].shares
  /\ LotBag(Without(AssetsOf(w.assets_to_sell), s) \o Without(w.assets_to_keep, k)) =
       LotBag(Without(LotsBefore, i))

SplitsAtMostOneLot(w) ==
  /\ acct.assets = Partition(pre.acct.assets, last.class)[2] \o w.assets_to_keep
  /\ SplitCount(w) \in {0, 1}
  /\ SplitCount(w) = 0 =>
       LotBag(AssetsOf(w.assets_to_sell) \o w.assets_to_keep) = LotBag(LotsBefore)
  /\ SplitCount(w) = 1 =>
       \E i \in 1..Len(LotsBefore) : \E s \in 1..Len(w.assets_to_sell) :
         \E k \in 1..Len(w.assets_to_keep) : SplitAt(w, i, s, k)

\* C12: a successful sell splits at most one lot; the split lot's sold and
\* kept shares add up to its shares, the kept remainder's cost basis is
\* cost_basis * shares_kept / shares_original, the two cost bases add up to
\* the lot's cost basis; every other lot of the class is removed whole or
\* left unchanged.
C12_SplitIsProRated ==
  (last.op = "sell" /\ last.res = "Ok") => SplitsAtMostOneLot(LastWalk)

HasSplit(w) == Len(w.assets_to_sell) = 2 /\ SplitCount(w) = 1

C12_Witness ==
  /\ last.op = "sell" /\ last.res = "Ok"
  /\ Len(LotsBefore) = 2
  /\ HasSplit(LastWalk)

\* the gain realized by the last call: the fall of the lots' value above cost basis
RealizedGain == FSub(UnrealizedGain(pre.acct.assets), UnrealizedGain(acct.assets))

\* the last call was a withdraw that found cash short of the amount
ShortWithdraw == last.op = "withdraw" /\ FGe(last.amount, Zero)
                 /\ ~has_enough_cash(pre.acct, last.amount)

\* C13: a successful withdraw(amount) that finds cash short of amount sells
\* Equity lots worth 1.15 * (amount - cash_balance) and debits amount: the
\* total balance decreases by exactly amount plus the tax paid on the sale (by
\* exactly amount, with no Tax transaction, when the sold lots carry no gain)
\* and exactly one Withdrawal transaction of amount is appended, as the last
\* ledger entry.
C13_ShortWithdrawSellsEquity ==
  (ShortWithdraw /\ last.res = "Ok") =>
    /\ LedgerGrew
    /\ last.val = last.amount
    /\ ClassValue(acct.assets, "Equity") =
         FSub(ClassValue(pre.acct.assets, "Equity"),
              FMul(Q(115, 100), FSub(last.amount, pre.acct.cash_balance)))
    /\ TotalBalance(acct) = FSub(FSub(TotalBalance(pre.acct), last.amount), TaxAppended)
    /\ (RealizedGain = Zero) =>
         /\ TxOfType(Appended, "Tax") = <<>>
         /\ TotalBalance(acct) = FSub(TotalBalance(pre.acct), last.amount)
    /\ TxOfType(Appended, "Withdrawal") = <<Transaction("Withdrawal", last.amount)>>
    /\ acct.transactions[Len(acct.transactions)] = Transaction("Withdrawal", last.amount)

C13_Witness ==
  /\ ShortWithdraw /\ last.res = "Ok"
  /\ FGt(TaxAppended, Zero)
  /\ Len(Appended) = 3

\* a successful short withdraw whose forced sale realizes no gain
C13_WitnessNoGain ==
  /\ ShortWithdraw /\ last.res = "Ok"
  /\ RealizedGain = Zero
  /\ TaxAppended = Zero

\* C14: whenever withdraw returns InsufficientFunds, the cash balance after
\* the call is not enough to cover amount (the account is still short after
\* the sale attempt).
C14_FailsOnlyWhenStillShort ==
  (last.op = "withdraw" /\ last.res = "InsufficientFunds") =>
    ~has_enough_cash(acct, last.amount)

\* the last call was a withdraw that returned an error
FailedWithdraw ==
  last.op = "withdraw" /\ last.res \in {"InsufficientFunds", "NegativeAmount"}

\* C15: when withdraw returns an error no Withdrawal transaction is appended
\* and the total balance differs from its pre-call value by exactly the Tax
\* amounts appended during the call; what the call sold stays sold: the value
\* that left the lots is recorded as Sale transactions and is in cash.
C15_FailedWithdrawKeepsSale ==
  FailedWithdraw =>
    /\ LedgerGrew
    /\ TxOfType(Appended, "Withdrawal") = <<>>
    /\ TotalBalance(acct) = FSub(TotalBalance(pre.acct), TaxAppended)
    /\ LedgerTotal(Appended, {"Sale"}) =
         FSub(TotalValue(pre.acct.assets), TotalValue(acct.assets))
    /\ acct.cash_balance =
         FSub(FAdd(pre.acct.cash_balance, LedgerTotal(Appended, {"Sale"})), TaxAppended)

C15_Witness ==
  /\ FailedWithdraw
  /\ FGt(LedgerTotal(Appended, {"Sale"}), Zero)
  /\ FGt(TaxAppended, Zero)
  /\ Len(acct.assets) < Len(pre.acct.assets)

\* the lots of the classes withdraw does not sell from are as before the call
BondAndOtherUnchanged ==
  /\ ClassLots(acct.assets, "Bond") = ClassLots(pre.acct.assets, "Bond")
  /\ ClassLots(acct.assets, "Other") = ClassLots(pre.acct.assets, "Other")

\* the last withdraw found cash short and asked for a sale of more than the account holds
OverBalanceWithdraw ==
  /\ ShortWithdraw
  /\ FGt(FMul(FSub(last.amount, pre.acct.cash_balance), Q(115, 100)),
         TotalBalance(pre.acct))

\* C16 (as stated): for every withdraw call, successful or failed, the
\* Bond-class and Other-class lots are unchanged.
C16_WithdrawTouchesOnlyEquity == (last.op = "withdraw") => BondAndOtherUnchanged

\* C16 (amended): a withdraw leaves the Bond-class and Other-class lots
\* unchanged unless the sale it asks for, 1.15 * (amount - cash_balance),
\* exceeds the total balance: then every lot of every class is sold.
C16_WithdrawSellsEquityOrEverything ==
  (last.op = "withdraw") =>
    IF OverBalanceWithdraw THEN acct.assets = <<>> ELSE BondAndOtherUnchanged

C16_Witness ==
  /\ last.op = "withdraw"
  /\ ~OverBalanceWithdraw
  /\ ShortWithdraw
  /\ last.res = "Ok"
  /\ ClassLots(pre.acct.assets, "Bond") # <<>>
  /\ ClassLots(acct.assets, "Equity") # ClassLots(pre.acct.assets, "Equity")

\* a withdraw that sold the Bond lots with everything else
C16_WitnessLiquidated ==
  /\ OverBalanceWithdraw
  /\ ClassLots(pre.acct.assets, "Bond") # <<>>
  /\ acct.assets = <<>>

\* the transactions the last call appended to the other account's ledger
OtherLedgerGrew ==
  /\ Len(other.transactions) >= Len(pre.other.transactions)
  /\ SubSeq(other.transactions, 1, Len(pre.other.transactions)) = pre.other.transactions

OtherAppended ==
  SubSeq(other.transactions, Len(pre.other.transactions) + 1, Len(other.transactions))

FeeAppended == LedgerTotal(OtherAppended, {"Fee"})

\* both accounts' total balances, after and before the last call
BothBalances == FAdd(TotalBalance(acct), other.balance)

BothBalancesBefore == FAdd(TotalBalance(pre.acct), pre.other.balance)

TransferError == {"InsufficientFunds", "NegativeAmount", "DepositFailed"}

\* brokerage -> checking
TransferOutConserves ==
  /\ LedgerGrew
  /\ last.res = "Ok" =>
       /\ last.val = last.amount
       /\ TotalBalance(acct) = FSub(FSub(TotalBalance(pre.acct), last.amount), TaxAppended)
       /\ other.balance = FAdd(pre.other.balance, last.amount)
  /\ last.res \in TransferError =>
       /\ other = pre.other
       /\ BothBalances = FSub(BothBalancesBefore, TaxAppended)

\* checking -> brokerage
TransferInConserves ==
  /\ OtherLedgerGrew
  /\ last.res = "Ok" =>
       /\ last.val = last.amount
       /\ other.balance = FSub(FSub(pre.other.balance, last.amount), FeeAppended)
       /\ TotalBalance(acct) = FAdd(TotalBalance(pre.acct), last.amount)
  /\ last.res \in TransferError =>
       /\ acct = pre.acct
       /\ BothBalances = FSub(BothBalancesBefore, FeeAppended)

\* C17: for every outcome of a transfer the amount is never lost: on success
\* the source's total balance decreases by amount plus the tax or fee it paid
\* and the destination's balance increases by exactly amount; on any error
\* the destination is unchanged and the sum of both total balances differs
\* from its pre-call value only by the tax or fees recorded in the source's
\* ledger.
C17_TransferLosesNothing ==
  /\ last.op = "transfer" => TransferOutConserves
  /\ last.op = "transfer_in" => TransferInConserves
  /\ last.op \in {"transfer", "transfer_in"} => last.res \in TransferError \cup {"Ok"}

C17_Witness ==
  /\ last.op = "transfer" /\ last.res = "Ok"
  /\ FGt(TaxAppended, Zero)
  /\ FGt(other.balance, pre.other.balance)

\* a transfer that fails after its forced sale has paid tax
C17_WitnessFailed ==
  /\ last.op = "transfer" /\ last.res = "InsufficientFunds"
  /\ FGt(TaxAppended, Zero)

\* a transfer out of the checking account that paid the overdraft fee
C17_WitnessFee ==
  /\ last.op = "transfer_in" /\ last.res = "Ok"
  /\ FGt(FeeAppended, Zero)

\* the last call took an amount and the amount was negative
NegativeCall ==
  /\ last.op \in {"deposit", "withdraw", "transfer", "transfer_in", "sell"}
  /\ FLt(last.amount, Zero)

\* C18: deposit, withdraw, transfer and sell called with a negative amount
\* return NegativeAmount carrying that amount and leave the cash balance, the
\* lot store and the ledger of every account involved unchanged.
C18_NegativeAmountRejected ==
  NegativeCall =>
    /\ last.res = "NegativeAmount"
    /\ last.val = last.amount
    /\ acct = pre.acct
    /\ other = pre.other

C18_Witness ==
  /\ NegativeCall
  /\ last.op = "sell"
  /\ pre.acct.assets # <<>>
  /\ pre.acct.transactions # <<>>
  /\ last.res = "NegativeAmount"

\* each of the other calls is reached with a negative amount
C18_WitnessDeposit == NegativeCall /\ last.op = "deposit" /\ pre.acct.assets # <<>>

C18_WitnessWithdraw == NegativeCall /\ last.op = "withdraw" /\ pre.acct.assets # <<>>

C18_WitnessTransfer == NegativeCall /\ last.op = "transfer" /\ pre.acct.assets # <<>>

C18_WitnessTransferIn == NegativeCall /\ last.op = "transfer_in" /\ pre.acct.assets # <<>>

\* cash_balance * cash_interest / 100 before the last call
InterestDue == FDiv(FMul(pre.acct.cash_balance, pre.acct.cash_interest), Q(100, 1))

\* the factor accrue applies to the price of a lot of the class
PriceFactor(class) ==
  CASE class = "Equity" -> Q(110, 100)
    [] class = "Bond"   -> Q(1035, 1000)
    [] class = "Other"  -> Q(1, 1)

\* the rise of the lots' value over the last call
ValueGained == FSub(TotalValue(acct.assets), TotalValue(pre.acct.assets))

\* C19: accrue() credits interest = cash_balance * cash_interest / 100 to cash
\* with one Interest transaction when it is > 0, multiplies the price of
\* every Equity lot by 1.10 and of every Bond lot by 1.035 and leaves the
\* price of Other lots, appends one UnrealizedGain transaction for the summed
\* rise in value when it is > 0, after the Interest transaction, and returns
\* interest + gains; the total balance increases by exactly the value returned.
C19_AccrueCreditsInterestAndGains ==
  (last.op = "accrue") =>
    /\ last.res = "Ok"
    /\ LedgerGrew
    /\ acct.cash_balance =
         IF FGt(InterestDue, Zero) THEN FAdd(pre.acct.cash_balance, InterestDue)
         ELSE pre.acct.cash_balance
    /\ Len(acct.assets) = Len(pre.acct.assets)
    /\ \A i \in 1..Len(pre.acct.assets) :
         acct.assets[i].current_price =
           FMul(pre.acct.assets[i].current_price, PriceFactor(pre.acct.assets[i].asset_class))
    /\ Appended =
         (IF FGt(InterestDue, Zero) THEN <<Transaction("Interest", InterestDue)>> ELSE <<>>)
         \o (IF FGt(ValueGained, Zero)
             THEN <<Transaction("UnrealizedGain", ValueGained)>> ELSE <<>>)
    /\ last.val = FAdd(InterestDue, ValueGained)
    /\ TotalBalance(acct) = FAdd(TotalBalance(pre.acct), last.val)

C19_Witness ==
  /\ last.op = "accrue"
  /\ FGt(InterestDue, Zero)
  /\ ClassLots(pre.acct.assets, "Equity") # <<>>
  /\ ClassLots(pre.acct.assets, "Bond") # <<>>
  /\ Len(Appended) = 2

\* accrue on an account whose only lot is of class Other: no gain is recorded
C19_WitnessOther ==
  /\ last.op = "accrue"
  /\ ClassLots(pre.acct.assets, "Other") # <<>>
  /\ ValueGained = Zero
  /\ TxOfType(Appended, "UnrealizedGain") = <<>>

\* lot m is lot l with, at most, another price
SameButPrice(l, m) == m = [l EXCEPT !.current_price = m.current_price]

\* C20: accrue() never creates, removes, reorders or splits a lot and never
\* changes a lot's shares, cost basis or class: only current_price changes;
\* on an account holding no lots the allocation is (1, 0, 0) before and after.
C20_AccrueChangesOnlyPrices ==
  (last.op = "accrue") =>
    /\ Len(acct.assets) = Len(pre.acct.assets)
    /\ \A i \in 1..Len(pre.acct.assets) : SameButPrice(pre.acct.assets[i], acct.assets[i])
    /\ (pre.acct.assets = <<>>) =>
         /\ get_asset_alloc(pre.acct) = <<Q(1, 1), Zero, Zero>>
         /\ get_asset_alloc(acct) = <<Q(1, 1), Zero, Zero>>

C20_Witness ==
  /\ last.op = "accrue"
  /\ Len(pre.acct.assets) >= 2
  /\ \A i \in 1..Len(pre.acct.assets) :
       acct.assets[i].current_price # pre.acct.assets[i].current_price

\* accrue on an account holding no lots that earns interest
C20_WitnessNoLots ==
  /\ last.op = "accrue"
  /\ pre.acct.assets = <<>>
  /\ FGt(acct.cash_balance, pre.acct.cash_balance)

\* a target fraction outside [0, 1)
InvalidFraction(f) == FLt(f, Zero) \/ FGe(f, Q(1, 1))

RebalanceCall == last.op \in {"soft_rebalance", "hard_rebalance"}

\* C21: soft_rebalance and hard_rebalance called with target_equity_fraction
\* or target_cash_fraction outside [0, 1) return the NegativeAmount error and
\* change nothing: cash balance, lot store and ledger are as before the call.
C21_InvalidTargetsRejected ==
  ( /\ RebalanceCall
    /\ InvalidFraction(last.target_equity) \/ InvalidFraction(last.target_cash) ) =>
    /\ last.res = "NegativeAmount"
    /\ Unchanged("cash_balance")
    /\ Unchanged("assets")
    /\ Unchanged("transactions")

C21_Witness ==
  /\ last.op = "hard_rebalance"
  /\ FGe(last.target_equity, Q(1, 1))
  /\ ~InvalidFraction(last.target_cash)
  /\ pre.acct.assets # <<>>
  /\ FGt(pre.acct.cash_balance, Zero)
  /\ last.res = "NegativeAmount"

C21_WitnessNegativeEquity ==
  /\ last.op = "soft_rebalance"
  /\ FLt(last.target_equity, Zero)
  /\ pre.acct.assets # <<>>
  /\ last.res = "NegativeAmount"

C21_WitnessCash ==
  /\ RebalanceCall
  /\ InvalidFraction(last.target_cash)
  /\ pre.acct.assets # <<>>
  /\ last.res = "NegativeAmount"

\* the lots the last call added at the end of the lot store
NewLots == SubSeq(acct.assets, Len(pre.acct.assets) + 1, Len(acct.assets))

LotsKept ==
  /\ Len(acct.assets) >= Len(pre.acct.assets)
  /\ SubSeq(acct.assets, 1, Len(pre.acct.assets)) = pre.acct.assets

\* the dollar target of a class under the targets of the last call
TargetValue(a, class) ==
  IF class = "Equity"
  THEN FMul(last.target_equity, TotalBalance(a))
  ELSE FMul(FSub(FSub(Q(1, 1), last.target_equity), last.target_cash), TotalBalance(a))

AboveTarget(a, class) == FGt(ClassValue(a.assets, class), TargetValue(a, class))

\* C22: soft_rebalance only buys: every call keeps every existing lot as it
\* was, appends no Sale or Tax transaction, buys at most once for Equity and
\* at most once for Bond (at most two Purchase transactions), leaves the total
\* balance unchanged, and leaves alone a class whose value is above its target.
C22_SoftRebalanceOnlyBuys ==
  (last.op = "soft_rebalance") =>
    /\ LotsKept
    /\ LedgerGrew
    /\ \A i \in 1..Len(Appended) : Appended[i].transaction_type = "Purchase"
    /\ Len(Appended) = Len(NewLots)
    /\ Len(ClassLots(NewLots, "Equity")) <= 1
    /\ Len(ClassLots(NewLots, "Bond")) <= 1
    /\ ClassLots(NewLots, "Other") = <<>>
    /\ TotalBalance(acct) = TotalBalance(pre.acct)
    /\ \A class \in {"Equity", "Bond"} :
         AboveTarget(pre.acct, class) => ClassLots(NewLots, class) = <<>>

ValidTargets == ~InvalidFraction(last.target_equity) /\ ~InvalidFraction(last.target_cash)

\* C23: for valid target fractions the purchases soft_rebalance issues never
\* overdraw cash: what it buys totals at most the cash balance of before the
\* call, and it never returns InsufficientFunds.
C23_SoftRebalanceNeverOverdraws ==
  (last.op = "soft_rebalance" /\ ValidTargets) =>
    /\ last.res # "InsufficientFunds"
    /\ FLe(LedgerTotal(Appended, {"Purchase"}), pre.acct.cash_balance)

Within(x, y, tolerance) == FLt(FAbs(FSub(x, y)), tolerance)

TargetBond == FSub(FSub(Q(1, 1), last.target_equity), last.target_cash)

\* the allocation returned is the target allocation, within 0.01 for cash and
\* 0.05 for equity and bond
ReturnsTargets ==
  /\ Within(last.alloc[1], last.target_cash, Q(1, 100))
  /\ Within(last.alloc[2], last.target_equity, Q(5, 100))
  /\ Within(last.alloc[3], TargetBond, Q(5, 100))

\* C24: for valid targets with target_equity + target_cash <= 1, on an account
\* whose equity value and bond value are each at or below their target,
\* soft_rebalance returns Ok with the allocation (target_cash, target_equity,
\* 1 - target_equity - target_cash), within 0.01 for cash and 0.05 for equity
\* and bond.
C24_SoftRebalanceReachesTargets ==
  ( /\ last.op = "soft_rebalance"
    /\ ValidTargets
    /\ FGe(TargetBond, Zero)
    /\ ~AboveTarget(pre.acct, "Equity")
    /\ ~AboveTarget(pre.acct, "Bond") ) =>
    /\ last.res = "Ok"
    /\ ReturnsTargets

\* the last call sold lots: its corrective step ran
Corrected == TxOfType(Appended, "Sale") # <<>>

SaleProceeds == LedgerTotal(Appended, {"Sale"})

\* the amount of the last transaction the last call appended
LastAppended == Appended[Len(Appended)]

\* C25: in the corrective step of hard_rebalance the amount of the purchase
\* equals the proceeds of the sale, so the step changes cash_balance only by
\* the tax paid on the sale: cash after the call is cash before it, less the
\* purchases of the soft_rebalance stage, less the tax.
C25_CorrectiveBuySpendsProceeds ==
  (last.op = "hard_rebalance" /\ last.res = "Ok" /\ Corrected) =>
    /\ LastAppended.transaction_type = "Purchase"
    /\ LastAppended.amount = SaleProceeds
    /\ acct.cash_balance =
         FSub(FSub(pre.acct.cash_balance,
                   FSub(LedgerTotal(Appended, {"Purchase"}), LastAppended.amount)),
              TaxAppended)

\* the account as the soft_rebalance stage of the last call leaves it
AfterSoft == soft_rebalance(pre.acct, last.target_equity, last.target_cash)

\* the transactions the last call appended after its soft_rebalance stage
AppendedAfterSoft ==
  SubSeq(acct.transactions, Len(AfterSoft.acct.transactions) + 1, Len(acct.transactions))

\* one sale of the class sold and one purchase of the class bought, on top of s
CorrectivePair(s, sold, bought) ==
  /\ Corrected
  /\ ClassValue(acct.assets, sold) = FSub(ClassValue(s.assets, sold), SaleProceeds)
  /\ Len(ClassLots(acct.assets, sold)) <= Len(ClassLots(s.assets, sold))
  /\ Len(ClassLots(acct.assets, bought)) = Len(ClassLots(s.assets, bought)) + 1
  /\ SubSeq(ClassLots(acct.assets, bought), 1, Len(ClassLots(s.assets, bought))) =
       ClassLots(s.assets, bought)
  /\ acct.assets[Len(acct.assets)].asset_class = bought
  /\ ClassLots(acct.assets, "Other") = ClassLots(s.assets, "Other")

\* C26: after its soft_rebalance stage one hard_rebalance call makes at most
\* one sale and at most one purchase: it sells Equity and buys Bond when
\* equity is over target, otherwise sells Bond and buys Equity when bonds are
\* over target, otherwise does nothing more; it never does both pairs.
C26_OneCorrectivePair ==
  (last.op = "hard_rebalance") =>
    /\ Len(acct.transactions) >= Len(AfterSoft.acct.transactions)
    /\ SubSeq(acct.transactions, 1, Len(AfterSoft.acct.transactions)) =
         AfterSoft.acct.transactions
    /\ Len(TxOfType(AppendedAfterSoft, "Purchase")) <= 1
    /\ Len(TxOfType(AppendedAfterSoft, "Tax")) <= 1
    /\ (AfterSoft.res # "Ok") => acct = AfterSoft.acct
    /\ (AfterSoft.res = "Ok" /\ last.res = "Ok") =>
         IF AboveTarget(AfterSoft.acct, "Equity")
         THEN CorrectivePair(AfterSoft.acct, "Equity", "Bond")
         ELSE IF AboveTarget(AfterSoft.acct, "Bond")
         THEN CorrectivePair(AfterSoft.acct, "Bond", "Equity")
         ELSE acct = AfterSoft.acct

C26_Witness ==
  /\ last.op = "hard_rebalance" /\ last.res = "Ok"
  /\ AboveTarget(AfterSoft.acct, "Equity")
  /\ AboveTarget(AfterSoft.acct, "Bond")
  /\ CorrectivePair(AfterSoft.acct, "Equity", "Bond")

C26_WitnessBond ==
  /\ last.op = "hard_rebalance" /\ last.res = "Ok"
  /\ AfterSoft.acct # pre.acct
  /\ AboveTarget(AfterSoft.acct, "Bond")
  /\ CorrectivePair(AfterSoft.acct, "Bond", "Equity")

\* what a class lacks to be at its target
NeedOf(a, class) == FSub(TargetValue(a, class), ClassValue(a.assets, class))

\* cash covers both needs, as buy requires it: by more than 0.001
CashCoversNeeds(a) ==
  FGt(FSub(a.cash_balance, FAdd(NeedOf(a, "Equity"), NeedOf(a, "Bond"))), Q(1, 1000))

\* valid targets, no class above its target, cash covering both needs
AtOrBelowTargets ==
  /\ ValidTargets
  /\ FGe(TargetBond, Zero)
  /\ ~AboveTarget(pre.acct, "Equity")
  /\ ~AboveTarget(pre.acct, "Bond")
  /\ CashCoversNeeds(pre.acct)

\* hard_rebalance did what soft_rebalance alone does, and sold nothing
SameAsSoft ==
  /\ last.res = AfterSoft.res
  /\ acct = AfterSoft.acct
  /\ last.alloc = AfterSoft.alloc
  /\ ~Corrected

C27_WitnessOther ==
  /\ last.op = "hard_rebalance" /\ AtOrBelowTargets
  /\ ClassLots(pre.acct.assets, "Other") # <<>>
  /\ Len(Appended) > 0
  /\ SameAsSoft

\* C28: the ledger is append-only: after every call, successful or failed,
\* the ledger of before the call is a prefix of the ledger of after it; no
\* transaction is removed, reordered or modified.
C28_LedgerIsAppendOnly ==
  /\ Len(pre.acct.transactions) <= Len(acct.transactions)
  /\ \A i \in 1..Len(pre.acct.transactions) :
       acct.transactions[i] = pre.acct.transactions[i]

C28_Witness ==
  /\ last.res = "InsufficientFunds"
  /\ Len(pre.acct.transactions) >= 2
  /\ Len(acct.transactions) > Len(pre.acct.transactions)
  /\ C28_LedgerIsAppendOnly

C28_WitnessOk ==
  /\ last.res = "Ok"
  /\ Len(pre.acct.transactions) >= 2
  /\ Len(acct.transactions) >= Len(pre.acct.transactions) + 2
  /\ C28_LedgerIsAppendOnly

\* C29: a buy that returns InsufficientFunds reports requested = shares*price
\* and available = cash_balance, creates no lot, appends no transaction and
\* leaves cash_balance unchanged.
C29_FailedBuyChangesNothing ==
  (last.op = "buy" /\ last.res = "InsufficientFunds") =>
    /\ last.requested = FMul(last.shares, last.price)
    /\ last.available = pre.acct.cash_balance
    /\ Unchanged("assets")
    /\ Unchanged("transactions")
    /\ Unchanged("cash_balance")

C29_Witness ==
  /\ last.op = "buy" /\ last.res = "InsufficientFunds"
  /\ pre.acct.assets # <<>>
  /\ FGt(pre.acct.cash_balance, Zero)
  /\ FGt(last.requested, last.available)

\* C30: lots are never merged: every successful buy appends exactly one new
\* lot with shares = shares, cost_basis = shares*price and current_price =
\* price, also when lots of the class exist, and leaves every existing lot as
\* it was.
C30_BuyAppendsOneLot ==
  (last.op = "buy" /\ last.res = "Ok") =>
    /\ Len(acct.assets) = Len(pre.acct.assets) + 1
    /\ SubSeq(acct.assets, 1, Len(pre.acct.assets)) = pre.acct.assets
    /\ acct.assets[Len(acct.assets)].asset_class = last.class
    /\ acct.assets[Len(acct.assets)].shares = last.shares
    /\ acct.assets[Len(acct.assets)].cost_basis = FMul(last.shares, last.price)
    /\ acct.assets[Len(acct.assets)].current_price = last.price

C30_Witness ==
  /\ last.op = "buy" /\ last.res = "Ok"
  /\ Len(ClassLots(pre.acct.assets, last.class)) >= 1
  /\ Len(ClassLots(acct.assets, last.class)) =
       Len(ClassLots(pre.acct.assets, last.class)) + 1
  /\ \E i \in 1..Len(pre.acct.assets) :
       /\ pre.acct.assets[i].asset_class = last.class
       /\ pre.acct.assets[i].current_price = last.price

\* the last call asked the checking account for more than balance + overdraft_limit
BeyondOverdraft ==
  FGt(last.amount, FAdd(pre.other.balance, pre.other.overdraft_limit))

\* C31 (as stated): CheckingSavingsAccount.withdraw(amount) with amount greater
\* than balance + overdraft_limit returns InsufficientFunds{requested = amount,
\* available = balance} and leaves the balance and the ledger unchanged: no
\* overdraft fee is charged.
C31_BeyondOverdraftRefused ==
  (last.op = "checking_withdraw" /\ BeyondOverdraft) =>
    /\ last.res = "InsufficientFunds"
    /\ last.requested = last.amount
    /\ last.available = pre.other.balance
    /\ other.balance = pre.other.balance
    /\ other.transactions = pre.other.transactions
    /\ FeeAppended = Zero

\* C31 (amended): CheckingSavingsAccount.withdraw(amount) with amount >= 0 and
\* amount greater than balance + overdraft_limit returns
\* InsufficientFunds{requested = amount, available = balance} and leaves the
\* balance and the ledger unchanged: no overdraft fee is charged. A negative
\* amount is refused as NegativeAmount, whatever the balance.
C31_OverdrawRefused ==
  (last.op = "checking_withdraw" /\ BeyondOverdraft) =>
    /\ other.balance = pre.other.balance
    /\ other.transactions = pre.other.transactions
    /\ FeeAppended = Zero
    /\ IF FGe(last.amount, Zero)
       THEN /\ last.res = "InsufficientFunds"
            /\ last.requested = last.amount
            /\ last.available = pre.other.balance
       ELSE last.res = "NegativeAmount"

C31_Witness ==
  /\ last.op = "checking_withdraw" /\ BeyondOverdraft
  /\ FGt(pre.other.balance, Zero)
  /\ FGt(last.amount, pre.other.balance)
  /\ pre.other.transactions # <<>>
  /\ last.res = "InsufficientFunds"

C31_WitnessOverdrawn ==
  /\ last.op = "checking_withdraw" /\ BeyondOverdraft
  /\ FLt(pre.other.balance, Zero)
  /\ LedgerTotal(pre.other.transactions, {"Fee"}) # Zero
  /\ last.res = "InsufficientFunds"

\* the transactions after the Tax transaction, when the sequence starts with one
AfterTax(txs) ==
  IF txs # <<>> /\ txs[1].transaction_type = "Tax" THEN Tail(txs) ELSE txs

\* txs is the Tax transaction (only when tax > 0) followed by Sale
\* transactions, one per sold lot or portion of w, in the order they were sold
TaxThenSales(txs, tax, w) ==
  /\ FGt(tax, Zero) <=> (txs # <<>> /\ txs[1] = Transaction("Tax", tax))
  /\ Len(AfterTax(txs)) = Len(w.assets_to_sell)
  /\ \A i \in 1..Len(AfterTax(txs)) :
       /\ AfterTax(txs)[i].transaction_type = "Sale"
       /\ AfterTax(txs)[i].amount =
            FMul(w.assets_to_sell[i][2], w.assets_to_sell[i][1].current_price)

\* the loop of sell over the lots of the class held before the last call
WalkOf(amount, class) ==
  SellWalk(SortByGainRate(Partition(pre.acct.assets, class)[1]), amount, 1, NoneSold)

\* the lots kept are those the loop kept: w is what the last call sold
SoldAs(w, class) ==
  acct.assets = Partition(pre.acct.assets, class)[2] \o w.assets_to_keep

\* what a withdraw short of cash asks sell for
BufferedShortfall ==
  FMul(FSub(last.amount, pre.acct.cash_balance), Q(115, 100))

AllButLast(txs) == SubSeq(txs, 1, Len(txs) - 1)

\* C32: a successful sell appends the Tax transaction first (only when tax >
\* 0), then exactly one Sale transaction per sold lot or lot-portion, and the
\* Sale amounts sum to the requested amount; a withdraw that forces a sale
\* appends its Withdrawal transaction after all of them.
C32_TaxThenSalesThenWithdrawal ==
  /\ (last.op = "sell" /\ last.res = "Ok") =>
       /\ LedgerGrew
       /\ SoldAs(WalkOf(last.amount, last.class), last.class)
       /\ TaxThenSales(Appended, last.tax, WalkOf(last.amount, last.class))
       /\ SaleProceeds = last.amount
  /\ (last.op = "withdraw" /\ last.res = "Ok" /\ Corrected) =>
       /\ LedgerGrew
       /\ SoldAs(WalkOf(BufferedShortfall, "Equity"), "Equity")
       /\ TaxThenSales(AllButLast(Appended), last.tax, WalkOf(BufferedShortfall, "Equity"))
       /\ SaleProceeds = BufferedShortfall
       /\ LastAppended = Transaction("Withdrawal", last.amount)

C32_Witness ==
  /\ last.op = "sell" /\ last.res = "Ok"
  /\ FGt(last.tax, Zero)
  /\ Len(Appended) >= 3
  /\ Appended[1].transaction_type = "Tax"

C32_WitnessWithdraw ==
  /\ last.op = "withdraw" /\ last.res = "Ok"
  /\ FGt(last.tax, Zero)
  /\ Len(Appended) >= 3
  /\ Appended[1].transaction_type = "Tax"
  /\ LastAppended.transaction_type = "Withdrawal"

\* C33: buy(shares, price, class) with shares > 0 and price > 0 succeeds
\* whenever shares*price is at most the cash balance, a buy that spends the
\* entire cash balance included; it returns InsufficientFunds only when
\* cash_balance < shares*price.
C33_BuySucceedsUpToCash ==
  (last.op = "buy" /\ FGt(last.shares, Zero) /\ FGt(last.price, Zero)) =>
    /\ FLe(FMul(last.shares, last.price), pre.acct.cash_balance) => last.res = "Ok"
    /\ last.res = "InsufficientFunds" =>
         FLt(pre.acct.cash_balance, FMul(last.shares, last.price))

\* C34: withdraw(amount) on a BrokerageAccount with 0 <= amount <=
\* cash_balance succeeds without selling anything: the lot store is unchanged,
\* cash decreases by exactly amount and only a Withdrawal transaction is
\* appended; this includes withdrawing the entire cash balance.
C34_WithdrawUpToCash ==
  ( /\ last.op = "withdraw"
    /\ FGe(last.amount, Zero)
    /\ FLe(last.amount, pre.acct.cash_balance) ) =>
    /\ last.res = "Ok"
    /\ Unchanged("assets")
    /\ acct.cash_balance = FSub(pre.acct.cash_balance, last.amount)
    /\ LedgerGrew
    /\ Appended = <<Transaction("Withdrawal", last.amount)>>

\* C35: the cash balance of a BrokerageAccount created with a non-negative
\* starting balance is never negative, in any state reached by deposit,
\* withdraw, transfer, buy, sell, liquidate, accrue, soft_rebalance and
\* hard_rebalance, also after sell and liquidate have debited the tax.
C35_CashNeverNegative == FGe(acct.cash_balance, Zero)

C35_Witness ==
  /\ last.op \in {"sell", "liquidate"}
  /\ FGt(TaxAppended, Zero)
  /\ FLt(pre.acct.cash_balance, Q(5, 1))
  /\ C35_CashNeverNegative

C35_WitnessSpent ==
  /\ last.op \in {"withdraw", "transfer", "buy", "hard_rebalance", "soft_rebalance"}
  /\ last.res = "Ok"
  /\ FLt(acct.cash_balance, Q(5, 1))
  /\ C35_CashNeverNegative

\* C36: replaying the ledger reproduces the cash balance: in every reachable
\* state the running cash of the statement, which starts at starting_balance,
\* adds each Deposit, Interest and Sale amount and subtracts each Withdrawal,
\* Fee, Tax and Purchase amount in ledger order, ends at cash_balance.
C36_LedgerReplaysCash ==
  acct.cash_balance = running_cash(acct.transactions, acct.starting_balance)

Recorded(txs, type) == \E i \in 1..Len(txs) : txs[i].transaction_type = type

C36_Witness ==
  /\ Recorded(acct.transactions, "Purchase")
  /\ Recorded(acct.transactions, "Sale")
  /\ Recorded(acct.transactions, "Tax")
  /\ Recorded(acct.transactions, "UnrealizedGain")
  /\ Recorded(acct.transactions, "Withdrawal")
  /\ acct.assets # <<>>
  /\ C36_LedgerReplaysCash

C36_WitnessFailed ==
  /\ last.res = "InsufficientFunds"
  /\ Recorded(Appended, "Sale")
  /\ Recorded(Appended, "Tax")
  /\ C36_LedgerReplaysCash

\* C37: in every reachable state with a positive total balance the allocation
\* triple accounts for the whole account: cash + equity value + bond value =
\* total balance, so the three fractions of get_asset_alloc sum to 1.
C37_AllocationAccountsForAll ==
  FGt(get_balance(acct), Zero) =>
    /\ FAdd(FAdd(acct.cash_balance, ClassValue(acct.assets, "Equity")),
            ClassValue(acct.assets, "Bond")) = get_balance(acct)
    /\ FAdd(FAdd(get_asset_alloc(acct)[1], get_asset_alloc(acct)[2]),
            get_asset_alloc(acct)[3]) = Q(1, 1)

\* C38: a transfer between the BrokerageAccount and the CheckingSavingsAccount,
\* in either direction, never returns DepositFailed and never makes the
\* compensating re-deposit: the account the money leaves gets no Deposit
\* transaction, and a transfer that did not return Ok after its withdraw leg
\* leaves the receiving account as it was.
C38_TransferNeverFailsDeposit ==
  /\ last.op \in {"transfer", "transfer_in"} => last.res \in {"Ok", "InsufficientFunds", "NegativeAmount"}
  /\ last.op = "transfer" =>
       /\ ~Recorded(Appended, "Deposit")
       /\ last.res # "Ok" => other = pre.other
  /\ last.op = "transfer_in" =>
       /\ ~Recorded(OtherAppended, "Deposit")
       /\ last.res # "Ok" => acct = pre.acct

\* a transfer out of the brokerage account whose deposit leg was reached
C38_Witness ==
  /\ last.op = "transfer" /\ last.res = "Ok"
  /\ Recorded(Appended, "Withdrawal")
  /\ Recorded(OtherAppended, "Deposit")
  /\ last.val = last.amount /\ FGt(last.amount, Zero)
  /\ C38_TransferNeverFailsDeposit

\* a transfer out of the checking account whose deposit leg was reached
C38_WitnessIn ==
  /\ last.op = "transfer_in" /\ last.res = "Ok"
  /\ Recorded(OtherAppended, "Withdrawal")
  /\ Recorded(Appended, "Deposit")
  /\ C38_TransferNeverFailsDeposit

\* a negative transfer, rejected before the withdraw leg
C38_WitnessNegative ==
  /\ last.op \in {"transfer", "transfer_in"} /\ last.res = "NegativeAmount"
  /\ FLt(last.amount, Zero)
  /\ acct = pre.acct /\ other = pre.other
  /\ C38_TransferNeverFailsDeposit

\* C39: soft_rebalance is all-or-nothing: whenever it returns an error for
\* valid target fractions (target_cash = 0 included), no purchase has been
\* made: cash, lot store and ledger are as they were before the call.
C39_SoftRebalanceAllOrNothing ==
  (last.op = "soft_rebalance" /\ last.res # "Ok" /\ ValidTargets) =>
    /\ acct.cash_balance = pre.acct.cash_balance
    /\ acct.assets = pre.acct.assets
    /\ acct.transactions = pre.acct.transactions

=============================================================================
